---------------------------- MODULE Spec2Model ----------------------------
(***************************************************************************)
(* Marble: scoped knowledge ingestion and retrieval.                       *)
(*                                                                         *)
(* The model covers the visibility check (assertFolderVisibility), the     *)
(* vector partition adapter (vectorize.ts), the ingestion pipeline         *)
(* (ingestFileById), the chat handler (handleChat), the file handlers and  *)
(* the team-membership operations (org.ts).                                *)
(*                                                                         *)
(* The specifications share the variables:                                 *)
(*   Spec        files, ingestion runs, sharing, deletion and chat         *)
(*   FanoutSpec  the same with index queries that throw during a chat      *)
(*   GrantSpec   personal files shared with single users, personal chats   *)
(*   TeamSpec    interleaved team-membership requests                      *)
(*   AccessSpec  the access check applied to every bounded input           *)
(*   MergeSpec   the merge of per-namespace matches on every bounded input *)
(*   FolderSpec  folder and file handlers that set visibility and team     *)
(*   RaceSpec    two ingestion runs of one file in flight together         *)
(*   QuerySpec   one queryNamespace call on every bounded global index     *)
(***************************************************************************)
EXTENDS Integers, Sequences, FiniteSets, TLC

VARIABLES
  isV2,             \* index shape probed by isV2(binding): TRUE = global with metadata filter
  team_members,     \* table team_members: <<team, user>> -> status
  teams,            \* table teams: set of team ids that exist
  folders,          \* table folders: folder id -> row (or NoRow)
  files,            \* table files: file id -> row (NoRow before creation, Gone after DELETE)
  objects,          \* object storage: file id -> length of the stored text (NoObject if absent)
  file_permissions, \* table file_permissions: set of [file_id, user_id, access_level]
  chunks,           \* table chunks: set of rows
  vectors,          \* vector index: set of [ns, id, values, metadata]
  nextChunk,        \* number of chunk ids handed out by crypto.randomUUID so far
  runs,             \* ingestion runs: run id -> locals and position of one ingestFileById call
  chat,             \* response of the chat request handled by the last step (NoChat otherwise)
  treqs,            \* team requests in flight: request id -> locals and position
  acc               \* input and outcome of one call of a function that is checked on its own

vars == <<isV2, team_members, teams, folders, files, objects, file_permissions,
          chunks, vectors, nextChunk, runs, chat, treqs, acc>>

-----------------------------------------------------------------------------
(* Identifiers and JavaScript values *)

Users == {"u1", "u2"}
Orgs == {"o1"}
Teams == {"t1", "t2"}
FolderIds == {"public-root", "private-root"}
NewFolderIds == {"d1"}    \* the ids crypto.randomUUID() gives to created folders
FileIds == {"f1"}
RunIds == {"p1"}
AllRunIds == {"p1", "p2"}   \* the calls of ingestFileById that can be in flight together
ReqIds == {"r1", "r2"}

NULL == "null"            \* JavaScript null / SQL NULL
UNDEF == "undefined"      \* JavaScript undefined (a property that is not there)

Visibilities == {"personal", "team", "organization"}

\* every caller belongs to the single organisation of the deployment
UserOrg(u) == "o1"

\* organization_role of the users row
OrgRole(u) == IF u = "u1" THEN "admin" ELSE "member"

\* JavaScript truthiness of an identifier-valued expression
Truthy(v) == v # NULL /\ v # UNDEF /\ v # ""

\* a ?? b
Coalesce(a, b) == IF a = NULL \/ a = UNDEF THEN b ELSE a

-----------------------------------------------------------------------------
(* Strings as character codes, btoa / atob *)

\* String(value) as a sequence of character codes (the identifiers are ASCII)
CharCodes(s) ==
  CASE s = "u1" -> <<117, 49>>
    [] s = "u2" -> <<117, 50>>
    [] s = "o1" -> <<111, 49>>
    [] s = "t1" -> <<116, 49>>
    [] s = "t2" -> <<116, 50>>
    [] s = "unknown" -> <<117, 110, 107, 110, 111, 119, 110>>
    [] s = UNDEF -> <<117, 110, 100, 101, 102, 105, 110, 101, 100>>
    [] s = NULL -> <<110, 117, 108, 108>>
    [] OTHER -> <<>>

\* the base64 alphabet: index 0..63 -> character code
B64Char(i) ==
  IF i < 26 THEN 65 + i
  ELSE IF i < 52 THEN 97 + (i - 26)
  ELSE IF i < 62 THEN 48 + (i - 52)
  ELSE IF i = 62 THEN 43 ELSE 47

\* character code -> index, -1 for a character outside the alphabet
B64Index(c) ==
  IF c >= 65 /\ c <= 90 THEN c - 65
  ELSE IF c >= 97 /\ c <= 122 THEN c - 97 + 26
  ELSE IF c >= 48 /\ c <= 57 THEN c - 48 + 52
  ELSE IF c = 43 THEN 62
  ELSE IF c = 47 THEN 63 ELSE -1

ByteAt(b, i) == IF i <= Len(b) THEN b[i] ELSE 0

\* the g-th group of three bytes as one 24-bit number (g from 0)
BtoaWord(b, g) == ByteAt(b, 3 * g + 1) * 65536 + ByteAt(b, 3 * g + 2) * 256 + ByteAt(b, 3 * g + 3)

\* the k-th of the four 6-bit digits of a 24-bit number (k from 0)
Sextet(word, k) ==
  IF k = 0 THEN word \div 262144
  ELSE IF k = 1 THEN (word \div 4096) % 64
  ELSE IF k = 2 THEN (word \div 64) % 64
  ELSE word % 64

\* btoa: 3 bytes -> 4 characters, '=' padded
Btoa(b) ==
  [j \in 1..(4 * ((Len(b) + 2) \div 3)) |->
     IF j <= (8 * Len(b) + 5) \div 6
     THEN B64Char(Sextet(BtoaWord(b, (j - 1) \div 4), (j - 1) % 4))
     ELSE 61]

RECURSIVE StripPad(_)
\* .replace(/=+$/g, '')
StripPad(s) ==
  IF Len(s) > 0 /\ s[Len(s)] = 61 THEN StripPad(SubSeq(s, 1, Len(s) - 1)) ELSE s

\* the number of '=' that end a base64 string
PadCount(s) ==
  IF Len(s) % 4 = 0 /\ Len(s) >= 2 /\ s[Len(s)] = 61
  THEN (IF s[Len(s) - 1] = 61 THEN 2 ELSE 1) ELSE 0

SixAt(d, j) == IF j <= Len(d) THEN B64Index(d[j]) ELSE 0

\* the g-th group of four characters as one 24-bit number (g from 0)
AtobWord(d, g) ==
  SixAt(d, 4 * g + 1) * 262144 + SixAt(d, 4 * g + 2) * 4096 + SixAt(d, 4 * g + 3) * 64 + SixAt(d, 4 * g + 4)

\* the i-th decoded byte (i from 1)
AtobByte(d, i) ==
  IF (i - 1) % 3 = 0 THEN AtobWord(d, (i - 1) \div 3) \div 65536
  ELSE IF (i - 1) % 3 = 1 THEN (AtobWord(d, (i - 1) \div 3) \div 256) % 256
  ELSE AtobWord(d, (i - 1) \div 3) % 256

\* atob: "" when the input is not valid base64 (the caller catches the exception)
Atob(s) ==
  LET d == SubSeq(s, 1, Len(s) - PadCount(s))
  IN IF Len(d) % 4 # 1 /\ \A j \in 1..Len(d) : B64Index(d[j]) >= 0
     THEN [i \in 1..((6 * Len(d)) \div 8) |-> AtobByte(d, i)]
     ELSE <<>>

\* encodeIdentifier: btoa, '+' -> '-', '/' -> '_', padding stripped
encodeIdentifier(value) ==
  LET b64 == Btoa(CharCodes(value))
      safe == [j \in 1..Len(b64) |->
                 IF b64[j] = 43 THEN 45 ELSE IF b64[j] = 47 THEN 95 ELSE b64[j]]
  IN StripPad(safe)

\* decodeIdentifier: pad to a multiple of 4, '-' -> '+', '_' -> '/', atob
decodeIdentifier(token) ==
  IF Len(token) = 0 THEN <<>>
  ELSE LET padlen == (4 - (Len(token) % 4)) % 4
           padded == token \o [j \in 1..padlen |-> 61]
           b64 == [j \in 1..Len(padded) |->
                     IF padded[j] = 45 THEN 43 ELSE IF padded[j] = 95 THEN 47 ELSE padded[j]]
       IN Atob(b64)

-----------------------------------------------------------------------------
(* Namespace tokens: the string "<scope>:<token>" as [scope, token] *)

organizationNamespace(organisationId) == [scope |-> "org", token |-> encodeIdentifier(organisationId)]

personalNamespace(userId) == [scope |-> "user", token |-> encodeIdentifier(userId)]

teamNamespace(teamId) == [scope |-> "team", token |-> encodeIdentifier(teamId)]

\* the literal 'team:unknown'
TeamUnknownNamespace == [scope |-> "team", token |-> CharCodes("unknown")]

\* partitionForVisibility(metadata)
partitionForVisibility(metadata) ==
  IF metadata.visibility = "organization" THEN organizationNamespace(metadata.organizationId)
  ELSE IF metadata.visibility = "team" THEN
    (IF ~Truthy(metadata.teamId) THEN TeamUnknownNamespace ELSE teamNamespace(metadata.teamId))
  ELSE personalNamespace(metadata.ownerId)

\* filterFromNamespace(ns): the metadata filter a namespace token decodes to
filterFromNamespace(ns) ==
  IF ns.scope = "org" THEN [visibility |-> "organization", field |-> "organizationId", value |-> decodeIdentifier(ns.token)]
  ELSE IF ns.scope = "team" THEN [visibility |-> "team", field |-> "teamId", value |-> decodeIdentifier(ns.token)]
  ELSE IF ns.scope = "user" THEN [visibility |-> "personal", field |-> "ownerId", value |-> decodeIdentifier(ns.token)]
  ELSE [visibility |-> UNDEF, field |-> UNDEF, value |-> <<>>]

\* the filter with no keys: {}
EmptyFilter == [visibility |-> UNDEF, field |-> UNDEF, value |-> <<>>]

-----------------------------------------------------------------------------
(* Rows *)

NoRow == [exists |-> FALSE]

FolderRow(id, vis, owner, team, deleted) ==
  [exists |-> TRUE, id |-> id, organization_id |-> "o1", visibility |-> vis,
   owner_id |-> owner, team_id |-> team, deleted |-> deleted]

-----------------------------------------------------------------------------
(* Visibility model: worker.ts (lib/db) *)

\* assertFolderPresence: throws 404 for a missing or soft-deleted folder
assertFolderPresence(folder) == IF ~folder.exists \/ folder.deleted THEN "404" ELSE "ok"

\* an owner test that also passes when the folder has no owner
isOwnerOrUnowned(folder, userId) == folder.owner_id = userId \/ ~Truthy(folder.owner_id)

isFolderOwner(folder, userId) == folder.owner_id = userId

\* a membership test that looks at the caller's teams and not at the folder's
isMemberOfSomeTeam(folder, teamIds) == teamIds # {}

isTeamMember(folder, teamIds) == IF Truthy(folder.team_id) THEN folder.team_id \in teamIds ELSE FALSE

\* assertFolderVisibility(folder, userId, mode, teamIds): "ok", or the status it throws
assertFolderVisibility(folder, userId, mode, teamIds) ==
  IF assertFolderPresence(folder) # "ok" THEN "404"
  ELSE IF folder.visibility = "personal" /\ ~isFolderOwner(folder, userId) THEN "403"
  ELSE IF folder.visibility = "team" /\ ~isTeamMember(folder, teamIds) /\ ~isFolderOwner(folder, userId) THEN "403"
  ELSE IF mode = "write" /\ folder.visibility = "organization" /\ Truthy(folder.owner_id)
          /\ ~isFolderOwner(folder, userId) THEN "403"
  ELSE IF mode = "write" /\ folder.visibility = "team" /\ ~isFolderOwner(folder, userId) THEN "403"
  ELSE IF mode = "write" /\ ~Truthy(folder.owner_id) /\ folder.id = "public-root" THEN "403"
  ELSE "ok"

\* assertFolderAccess delegates to assertFolderVisibility
assertFolderAccess(folder, userId, mode, teamIds) == assertFolderVisibility(folder, userId, mode, teamIds)

-----------------------------------------------------------------------------
(* Bounds and configuration *)

\* chunk ids (crypto.randomUUID) handed out in one behaviour
MaxChunkIds == 2

\* parseNumber(env.CHUNK_SIZE, 1500), parseNumber(env.CHUNK_OVERLAP, 200)
ChunkSize == 1500
Overlap == 200

\* parseTopK(env.VECTOR_TOP_K): 8 unless configured
TopK == 8

\* lengths of the texts that are uploaded
TextLens == {1000, 2000}

NoObject == -1

\* chunkText(text, {chunkSize, overlap}): the number of segments of a text of
\* the given length: ceil((len - overlap) / (chunkSize - overlap)), at least 1
\* for a non-empty text, 0 for an empty or whitespace-only one
SegmentCount(len) ==
  IF len <= 0 THEN 0
  ELSE IF len <= ChunkSize THEN 1
  ELSE ((len - Overlap) + (ChunkSize - Overlap) - 1) \div (ChunkSize - Overlap)

\* the embedding of the i-th segment of a text is i; the questions asked are
\* about the first segment
Questions == {1}

\* similarity score the index reports for a stored vector and a query vector
Score(values, query) == IF values = query THEN 9 ELSE 4

-----------------------------------------------------------------------------
(* Vector partition adapter: lib/vectorize.ts *)

\* the one partition of an index that takes no namespace argument
GlobalNs == [scope |-> "global", token |-> <<>>]

\* VectorMetadata as ingestFileById builds it; a field that the caller leaves
\* out reads as undefined
VectorMetadata(chunkId, fileId, visibility, ownerId, organizationId, teamId) ==
  [chunkId |-> chunkId, fileId |-> fileId, visibility |-> visibility, ownerId |-> ownerId,
   organizationId |-> organizationId, teamId |-> teamId]

\* upsertChunkVector(env, chunkId, embedding, metadata)
upsertChunkVector(index, v2, chunkId, embedding, metadata) ==
  LET ns == IF v2 THEN GlobalNs ELSE partitionForVisibility(metadata)
  IN {e \in index : ~(e.ns = ns /\ e.id = chunkId)}
       \cup {[ns |-> ns, id |-> chunkId, values |-> embedding, metadata |-> metadata]}

\* deleteChunkVectors(env, chunkIds, metadata)
deleteChunkVectors(index, v2, chunkIds, metadata) ==
  IF chunkIds = {} THEN index
  ELSE IF v2 THEN {e \in index : e.id \notin chunkIds}
  ELSE LET ns == partitionForVisibility(
                   VectorMetadata("", "", metadata.visibility, metadata.ownerId,
                                  metadata.organizationId, Coalesce(metadata.teamId, NULL)))
       IN {e \in index : ~(e.ns = ns /\ e.id \in chunkIds)}

\* what the properties visibility, ownerId, organizationId and teamId read as
\* when the metadata argument is a string (a string has no such properties)
PropertiesOfString ==
  [visibility |-> UNDEF, ownerId |-> UNDEF, organizationId |-> UNDEF, teamId |-> UNDEF]

\* the string a sequence of character codes spells ("?" if none of the identifiers)
StringOf(codes) ==
  LET known == Users \cup Orgs \cup Teams \cup {UNDEF, NULL, "unknown"}
  IN IF \E s \in known : CharCodes(s) = codes
     THEN CHOOSE s \in known : CharCodes(s) = codes
     ELSE "?"

\* the index's metadata filter: every key of the filter equals the stored value
MatchesFilter(metadata, filter) ==
  /\ metadata.visibility = filter.visibility
  /\ LET stored == IF filter.field = "organizationId" THEN metadata.organizationId
                   ELSE IF filter.field = "teamId" THEN metadata.teamId
                   ELSE metadata.ownerId
     IN stored # UNDEF /\ stored # NULL /\ CharCodes(stored) = filter.value

RECURSIVE BestFirst(_, _)
\* the entries of a set as the index returns them: best score first
BestFirst(entries, query) ==
  IF entries = {} THEN <<>>
  ELSE LET best == CHOOSE e \in entries :
                     \A o \in entries :
                        \/ Score(e.values, query) > Score(o.values, query)
                        \/ Score(e.values, query) = Score(o.values, query)
       IN <<best>> \o BestFirst(entries \ {best}, query)

Take(seq, k) == SubSeq(seq, 1, IF Len(seq) < k THEN Len(seq) ELSE k)

\* binding.query: the topK best entries of a partition (V1) or of the entries
\* that pass the filter (V2)
IndexQuery(index, ns, filter, query, topK) ==
  LET cand == {e \in index : e.ns = ns /\ (filter = EmptyFilter \/ MatchesFilter(e.metadata, filter))}
  IN Take(BestFirst(cand, query), topK)

\* a queryNamespace that always answers with the unfiltered query
QueryRawUnfiltered(index, v2, ns, query, topK) ==
  IndexQuery(index, IF v2 THEN GlobalNs ELSE ns, EmptyFilter, query, topK)

\* the raw matches queryNamespace builds its result from: on a V2 index the
\* filtered query, and the unfiltered one when the filtered one has no match
QueryRaw(index, v2, ns, query, topK) ==
  IF v2
  THEN LET filter == filterFromNamespace(ns)
           first == IndexQuery(index, GlobalNs, filter, query, topK)
       IN IF Len(first) = 0 /\ filter # EmptyFilter
          THEN IndexQuery(index, GlobalNs, EmptyFilter, query, topK)
          ELSE first
  ELSE IndexQuery(index, ns, EmptyFilter, query, topK)

\* the filters of the binding.query calls one queryNamespace call issues, in
\* order: lines 196-199 the filtered query, lines 201-208 the retry without filter
QueryCalls(index, v2, ns, query, topK) ==
  IF v2
  THEN LET filter == filterFromNamespace(ns)
           matches == IndexQuery(index, GlobalNs, filter, query, topK)
       IN IF Len(matches) = 0 /\ filter # EmptyFilter
          THEN <<filter, EmptyFilter>>
          ELSE <<filter>>
  ELSE <<EmptyFilter>>

\* buildMatch(raw): fields the stored metadata lacks are filled from the namespace
buildMatch(raw, ns, query) ==
  LET filter == filterFromNamespace(ns)
      md == raw.metadata
      visibility == Coalesce(md.visibility, Coalesce(filter.visibility, "personal"))
  IN [chunkId |-> Coalesce(md.chunkId, raw.id),
      fileId |-> Coalesce(md.fileId, ""),
      visibility |-> visibility,
      ownerId |-> Coalesce(md.ownerId, IF visibility = "personal" /\ filter.field = "ownerId" THEN StringOf(filter.value) ELSE ""),
      organizationId |-> Coalesce(md.organizationId, IF visibility = "organization" /\ filter.field = "organizationId" THEN StringOf(filter.value) ELSE ""),
      teamId |-> Coalesce(md.teamId, IF visibility = "team" /\ filter.field = "teamId" THEN StringOf(filter.value) ELSE NULL),
      score |-> Score(raw.values, query)]

\* queryNamespace(env, {namespace, vector, topK})
queryNamespace(index, v2, ns, query, topK) ==
  LET raw == QueryRaw(index, v2, ns, query, topK)
  IN [j \in 1..Len(raw) |-> buildMatch(raw[j], ns, query)]

-----------------------------------------------------------------------------
(* Relational store: worker.ts (lib/db), org.ts *)

\* a files row after DELETE: the id is not handed out again
GoneRow == [exists |-> FALSE, gone |-> TRUE]

FileRow(id, folderId, ownerId, teamId, visibility, status) ==
  [exists |-> TRUE, id |-> id, organization_id |-> "o1", folder_id |-> folderId,
   owner_id |-> ownerId, team_id |-> teamId, visibility |-> visibility, status |-> status]

\* a membership query that forgets the status filter on invitations
listTeamIdsIgnoringStatus(members, userId) ==
  {t \in Teams : members[<<t, userId>>] \in {"active", "pending"}}

\* listActiveTeamIdsForUser: SELECT team_id FROM team_members WHERE user_id = ? AND status = 'active'
listActiveTeamIdsForUser(members, userId) == {t \in Teams : members[<<t, userId>>] = "active"}

\* getFolderById: the row, or null for a missing or soft-deleted folder
getFolderById(folderTable, id) ==
  IF folderTable[id].exists /\ ~folderTable[id].deleted THEN folderTable[id] ELSE NoRow

\* getFile / getFileById: files JOIN folders, neither deleted
getFileById(fileTable, folderTable, fileId) ==
  IF fileTable[fileId].exists /\ getFolderById(folderTable, fileTable[fileId].folder_id).exists
  THEN fileTable[fileId] ELSE NoRow

\* an update that puts a file that is already ready back to uploading
resetFileStatus(fileTable, fileId, status) ==
  IF fileTable[fileId].exists
  THEN [fileTable EXCEPT ![fileId] =
          [fileTable[fileId] EXCEPT !.status = IF @ = "ready" THEN "uploading" ELSE status]]
  ELSE fileTable

\* updateFileStatus: UPDATE files SET status WHERE id (no row, no change)
updateFileStatus(fileTable, fileId, status) ==
  IF fileTable[fileId].exists
  THEN [fileTable EXCEPT ![fileId] = [fileTable[fileId] EXCEPT !.status = status]]
  ELSE fileTable

\* the row insertChunk binds: what the caller leaves out binds as undefined, team_id ?? null
ChunkRow(id, file, organizationId, teamId, index) ==
  [id |-> id, file_id |-> file.id, folder_id |-> file.folder_id, organization_id |-> organizationId,
   owner_id |-> file.owner_id, team_id |-> Coalesce(teamId, NULL), visibility |-> file.visibility,
   chunk_index |-> index]

\* an insertChunk whose INSERT stores nothing
insertNothing(chunkTable, row) == chunkTable

insertChunk(chunkTable, row) == chunkTable \cup {row}

\* deleteChunksForFile, first statement: SELECT id FROM chunks WHERE file_id
SelectChunkIds(chunkTable, fileId) == {c.id : c \in {r \in chunkTable : r.file_id = fileId}}

\* a deleteChunksForFile that only reads the ids and deletes nothing
KeepChunkRows(chunkTable, fileId) == chunkTable

\* deleteChunksForFile, second statement: DELETE FROM chunks WHERE file_id
DeleteChunkRows(chunkTable, fileId) == {c \in chunkTable : c.file_id # fileId}

\* getChunksByIds: chunks JOIN files JOIN folders WHERE c.id IN (ids); no caller in the query
getChunksByIds(chunkTable, fileTable, folderTable, chunkIds) ==
  {c \in chunkTable : /\ c.id \in chunkIds
                      /\ fileTable[c.file_id].exists
                      /\ folderTable[c.folder_id].exists}

-----------------------------------------------------------------------------
(* Initial state *)

IdleRun ==
  [pc |-> "idle", fileId |-> NULL, actor |-> NULL, file |-> NoRow, textLen |-> 0, segs |-> 0,
   embeddings |-> 0, existing |-> {}, inserted |-> {}, chunkId |-> NULL, wasReady |-> FALSE, clean |-> TRUE,
   result |-> ""]

NoChat == [kind |-> "none"]

IdleReq == [pc |-> "idle", team |-> NULL, user |-> NULL]

NoAccess == [pc |-> "none"]

\* seed data: the shared root folder is organisation-visible and has no owner,
\* the private root folder is personal and owned by the first user
SeedFolders ==
  [d \in FolderIds \cup NewFolderIds |->
     IF d = "public-root" THEN FolderRow("public-root", "organization", NULL, NULL, FALSE)
     ELSE IF d = "private-root" THEN FolderRow("private-root", "personal", "u1", NULL, FALSE)
     ELSE NoRow]

\* memberships of the file-and-chat specification: u1 is an active member of
\* t1, u2 has a pending invitation to t2
SeedMembers ==
  [m \in Teams \X Users |-> IF m = <<"t1", "u1">> THEN "active"
                            ELSE IF m = <<"t2", "u2">> THEN "pending" ELSE "none"]

Init ==
  /\ isV2 \in BOOLEAN
  /\ team_members = SeedMembers
  /\ teams = Teams
  /\ folders = SeedFolders
  /\ files = [f \in FileIds |-> NoRow]
  /\ objects = [f \in FileIds |-> NoObject]
  /\ file_permissions = {}
  /\ chunks = {}
  /\ vectors = {}
  /\ nextChunk = 0
  /\ runs = [p \in AllRunIds |-> IdleRun]
  /\ chat = NoChat
  /\ treqs = [r \in ReqIds |-> IdleReq]
  /\ acc = NoAccess

\* A chat request is handled in one step and its response is delivered by the
\* next one (ChatRespond); the other handlers run between chats. A chat writes
\* nothing the other handlers read, so every state of the stores and every
\* response to it is still reached.
NoResponse == chat = NoChat /\ chat' = NoChat

-----------------------------------------------------------------------------
(* File handlers: routes/files.ts, upload-url, routes/delete-file.ts *)

\* crypto.randomUUID() for a file: an id never used before
FreshFileIds == {f \in FileIds : files[f] = NoRow}

\* ensureFolder: INSERT ... ON CONFLICT(id) DO UPDATE
ensureFolder(folderTable, id, visibility, ownerId, teamId) ==
  [folderTable EXCEPT ![id] = FolderRow(id, visibility, ownerId, Coalesce(teamId, NULL), FALSE)]

\* the folder table after "if (!folder) ensureFolder(...)" of the two upload handlers
FoldersAfterEnsure(u, d, visibility, teamId) ==
  IF getFolderById(folders, d).exists THEN folders
  ELSE ensureFolder(folders, d, visibility, IF d = "public-root" THEN NULL ELSE u,
                    IF visibility = "team" THEN teamId ELSE NULL)

\* "throw 400" of ensureFolder, reached only when the folder is missing
EnsureRejects(d, visibility, teamId) ==
  ~getFolderById(folders, d).exists /\ visibility = "team" /\ ~Truthy(teamId)

\* handleCreateFile: multipart upload of a text of length len
CreateFile(u, d, visibility, teamId, len) ==
  /\ ~EnsureRejects(d, visibility, teamId)
  /\ LET teamIds == listActiveTeamIdsForUser(team_members, u)
         folders1 == FoldersAfterEnsure(u, d, visibility, teamId)
         folder == getFolderById(folders1, d)
         accepted == /\ assertFolderAccess(folder, u, "write", teamIds) = "ok"
                     /\ folder.visibility = visibility
                     /\ len > 0
     IN /\ folders' = folders1
        /\ IF accepted
           THEN \E f \in FreshFileIds :
                  /\ objects' = [objects EXCEPT ![f] = len]
                  /\ files' = [files EXCEPT ![f] =
                                 FileRow(f, folder.id, u, Coalesce(folder.team_id, NULL),
                                         folder.visibility, "uploading")]
           ELSE /\ folders1 # folders
                /\ UNCHANGED <<objects, files>>
  /\ NoResponse
  /\ UNCHANGED <<isV2, team_members, teams, file_permissions, chunks, vectors, nextChunk,
                 runs, treqs, acc>>

\* handleUploadUrl: the record is created, the object is written later by the client
UploadUrl(u, d, visibility, bodyTeamId) ==
  LET teamIds == listActiveTeamIdsForUser(team_members, u)
      teamId == IF visibility = "team" THEN Coalesce(bodyTeamId, NULL) ELSE NULL
      folders1 == FoldersAfterEnsure(u, d, visibility, teamId)
      folder == getFolderById(folders1, d)
      folderTeamId == Coalesce(folder.team_id, teamId)
      accepted == /\ visibility = "team" => Truthy(folderTeamId) /\ folderTeamId \in teamIds
                  /\ assertFolderVisibility(folder, u, "write", teamIds) = "ok"
  IN /\ ~EnsureRejects(d, visibility, teamId)
     /\ folders' = folders1
     /\ IF accepted
        THEN \E f \in FreshFileIds :
               files' = [files EXCEPT ![f] =
                           FileRow(f, d, u, Coalesce(folder.team_id, Coalesce(teamId, NULL)),
                                   visibility, "uploading")]
        ELSE /\ folders1 # folders
             /\ UNCHANGED files
     /\ NoResponse
     /\ UNCHANGED <<isV2, team_members, teams, objects, file_permissions, chunks, vectors,
                    nextChunk, runs, treqs, acc>>

\* the client PUTs a text of length len through the presigned URL of the file
\* (the record exists and the object is not there yet: the URL has not been used)
PutObject(f, len) ==
  /\ files[f].exists
  /\ objects[f] = NoObject
  /\ objects' = [objects EXCEPT ![f] = len]
  /\ NoResponse
  /\ UNCHANGED <<isV2, team_members, teams, folders, files, file_permissions, chunks, vectors,
                 nextChunk, runs, treqs, acc>>

\* updateFileSharing, the permission statements: rows of the file for users
\* outside the request are deleted, then one row per requested user is upserted
SetFilePermissions(table, f, permissions) ==
  LET kept == {fp \in table : fp.file_id # f \/ fp.user_id \in DOMAIN permissions}
  IN {fp \in kept : ~(fp.file_id = f /\ fp.user_id \in DOMAIN permissions)}
       \cup {[file_id |-> f, user_id |-> x, access_level |-> permissions[x]] : x \in DOMAIN permissions}

\* an updateFileSharing that accepts team visibility without a team id
updateFileSharingUnchecked(fileTable, f, visibility, dataTeamId) ==
  IF ~fileTable[f].exists THEN "404" ELSE "ok"

\* updateFileSharing, what it throws: 400 for team visibility without a team
\* id, 404 when the UPDATE of the file row changes no row
updateFileSharingStatus(fileTable, f, visibility, dataTeamId) ==
  IF visibility = "team" /\ ~Truthy(dataTeamId) THEN "400"
  ELSE IF ~fileTable[f].exists THEN "404"
  ELSE "ok"

\* updateFileSharing(env, fileId, actingUserId, {visibility, teamId, permissions}),
\* reached through handleUpdateFileSharing; permissions: the requested access
\* level of each listed user
UpdateFileSharing(u, f, visibility, dataTeamId, permissions) ==
  LET teamId == IF visibility = "team" THEN Coalesce(dataTeamId, NULL) ELSE NULL
  IN /\ updateFileSharingStatus(files, f, visibility, dataTeamId) = "ok"
     /\ \/ files[f].visibility # visibility
        \/ files[f].team_id # teamId
        \/ SetFilePermissions(file_permissions, f, permissions) # file_permissions
     /\ files' = [files EXCEPT ![f] = [files[f] EXCEPT !.visibility = visibility, !.team_id = teamId]]
     /\ chunks' = {IF c.file_id = f THEN [c EXCEPT !.visibility = visibility, !.team_id = teamId] ELSE c
                     : c \in chunks}
     /\ file_permissions' = SetFilePermissions(file_permissions, f, permissions)
     /\ NoResponse
     /\ UNCHANGED <<isV2, team_members, teams, folders, objects, vectors, nextChunk, runs,
                    treqs, acc>>

\* handleUpdateFileSharing, the status of its response for a body that parses:
\* what updateFileSharing throws, else 200; the acting user is not consulted
UpdateFileSharingResponse(u, f, visibility, dataTeamId) ==
  LET status == updateFileSharingStatus(files, f, visibility, dataTeamId)
  IN IF status = "ok" THEN "200" ELSE status

\* handleDeleteFile
DeleteFile(u, f) ==
  LET file == getFileById(files, folders, f)
      chunkIds == SelectChunkIds(chunks, f)
  IN /\ file.exists
     /\ file.owner_id = u
     /\ objects' = [objects EXCEPT ![f] = NoObject]
     /\ chunks' = DeleteChunkRows(chunks, f)
     /\ files' = [files EXCEPT ![f] = GoneRow]
     /\ vectors' = deleteChunkVectors(vectors, isV2, chunkIds,
                     [visibility |-> file.visibility, ownerId |-> file.owner_id,
                      organizationId |-> file.organization_id, teamId |-> Coalesce(file.team_id, NULL)])
     /\ runs' = [p \in AllRunIds |-> IF runs[p].fileId = f THEN [runs[p] EXCEPT !.clean = FALSE] ELSE runs[p]]
     /\ NoResponse
     /\ UNCHANGED <<isV2, team_members, teams, folders, file_permissions, nextChunk, treqs, acc>>

\* getFileSharingSummary: the permissions of the file as the sharing request lists them
PermissionsOf(table, f) ==
  [x \in {fp.user_id : fp \in {r \in table : r.file_id = f}} |->
     (CHOOSE fp \in table : fp.file_id = f /\ fp.user_id = x).access_level]

\* the team id handleUpdateFile passes on: desired.teamId ?? sharing.team_id ?? null
UpdateFileTeamId(file, visibility, bodyTeamId) ==
  IF visibility = "team" THEN Coalesce(bodyTeamId, Coalesce(file.team_id, NULL)) ELSE NULL

\* handleUpdateFile, the status of its response; renames: the body has a name;
\* visibility and bodyTeamId are UNDEF when the body leaves them out
UpdateFileResponse(u, f, renames, visibility, bodyTeamId) ==
  LET file == getFileById(files, folders, f)
      teamIds == listActiveTeamIdsForUser(team_members, u)
  IN IF ~renames /\ visibility = UNDEF /\ bodyTeamId = UNDEF THEN "400"
     ELSE IF visibility = "team" /\ ~Truthy(bodyTeamId) THEN "400"
     ELSE IF ~file.exists THEN "404"
     ELSE IF file.owner_id # u /\ (renames \/ visibility # UNDEF) THEN "403"
     ELSE IF visibility = "team" /\ bodyTeamId \notin teamIds THEN "403"
     ELSE IF visibility # UNDEF /\
             updateFileSharingStatus(files, f, visibility,
                                     UpdateFileTeamId(file, visibility, bodyTeamId)) # "ok"
       THEN updateFileSharingStatus(files, f, visibility, UpdateFileTeamId(file, visibility, bodyTeamId))
     ELSE "200"

\* handleUpdateFile: an accepted request with a visibility shares the file anew
\* and keeps its permissions (the name of a file is not part of the model)
UpdateFile(u, f, renames, visibility, bodyTeamId) ==
  /\ UpdateFileResponse(u, f, renames, visibility, bodyTeamId) = "200"
  /\ visibility # UNDEF
  /\ UpdateFileSharing(u, f, visibility, UpdateFileTeamId(files[f], visibility, bodyTeamId),
                       PermissionsOf(file_permissions, f))

\* createFolder, what it throws
createFolderStatus(visibility, teamId) ==
  IF visibility = "team" /\ ~Truthy(teamId) THEN "400" ELSE "ok"

\* createFolder: INSERT INTO folders
createFolder(folderTable, id, ownerId, visibility, teamId) ==
  [folderTable EXCEPT ![id] = FolderRow(id, visibility, ownerId, Coalesce(teamId, NULL), FALSE)]

\* folders.ts handleCreate, the status of its response
CreateFolderResponse(u, visibility, bodyTeamId) ==
  LET teamIds == listActiveTeamIdsForUser(team_members, u)
      teamId == IF visibility = "team" THEN Coalesce(bodyTeamId, NULL) ELSE NULL
  IN IF visibility = "team" /\ ~Truthy(teamId) THEN "400"
     ELSE IF Truthy(teamId) /\ teamId \notin teamIds THEN "403"
     ELSE IF createFolderStatus(visibility, teamId) # "ok" THEN createFolderStatus(visibility, teamId)
     ELSE "201"

\* folders.ts handleCreate
CreateFolder(u, visibility, bodyTeamId) ==
  /\ CreateFolderResponse(u, visibility, bodyTeamId) = "201"
  /\ \E d \in NewFolderIds :
       /\ ~folders[d].exists
       /\ folders' = createFolder(folders, d, u, visibility,
                                  IF visibility = "team" THEN Coalesce(bodyTeamId, NULL) ELSE NULL)
  /\ NoResponse
  /\ UNCHANGED <<isV2, team_members, teams, files, objects, file_permissions, chunks, vectors,
                 nextChunk, runs, treqs, acc>>

\* updateFolder: nextVisibility and nextTeam
NextFolderVisibility(current, visibility) == Coalesce(visibility, current.visibility)

NextFolderTeam(current, visibility, teamId) ==
  IF NextFolderVisibility(current, visibility) = "team" THEN Coalesce(teamId, current.team_id) ELSE NULL

\* updateFolder, what it throws
updateFolderStatus(folderTable, id, ownerId, visibility, teamId) ==
  LET current == folderTable[id]
  IN IF ~current.exists THEN "404"
     ELSE IF current.deleted THEN "404"
     ELSE IF Truthy(current.owner_id) /\ current.owner_id # ownerId THEN "403"
     ELSE IF NextFolderVisibility(current, visibility) = "team"
             /\ ~Truthy(NextFolderTeam(current, visibility, teamId)) THEN "400"
     ELSE "ok"

\* updateFolder: UPDATE folders SET name, visibility, owner_id, team_id
updateFolder(folderTable, id, ownerId, visibility, teamId) ==
  [folderTable EXCEPT ![id] =
     [folderTable[id] EXCEPT !.visibility = NextFolderVisibility(folderTable[id], visibility),
                             !.owner_id = ownerId,
                             !.team_id = NextFolderTeam(folderTable[id], visibility, teamId)]]

\* folders.ts handleUpdate, the status of its response; the body may carry a
\* name, so a request without visibility and team id is a valid one
UpdateFolderResponse(u, d, visibility, bodyTeamId) ==
  LET teamIds == listActiveTeamIdsForUser(team_members, u)
      desiredTeamId == Coalesce(bodyTeamId, NULL)
  IN IF visibility = "team" /\ ~Truthy(desiredTeamId) THEN "400"
     ELSE IF Truthy(desiredTeamId) /\ desiredTeamId \notin teamIds THEN "403"
     ELSE IF updateFolderStatus(folders, d, u, visibility, Coalesce(desiredTeamId, UNDEF)) # "ok"
       THEN updateFolderStatus(folders, d, u, visibility, Coalesce(desiredTeamId, UNDEF))
     ELSE "200"

\* folders.ts handleUpdate
UpdateFolder(u, d, visibility, bodyTeamId) ==
  /\ UpdateFolderResponse(u, d, visibility, bodyTeamId) = "200"
  /\ folders' = updateFolder(folders, d, u, visibility, Coalesce(Coalesce(bodyTeamId, NULL), UNDEF))
  /\ folders' # folders
  /\ NoResponse
  /\ UNCHANGED <<isV2, team_members, teams, files, objects, file_permissions, chunks, vectors,
                 nextChunk, runs, treqs, acc>>

-----------------------------------------------------------------------------
(* Ingestion pipeline: lib/ingestion.ts, ingestFileById(env, fileId, actingUserId) *)

SetRun(p, r) == [runs EXCEPT ![p] = r]

FailRun(p, status) == SetRun(p, [runs[p] EXCEPT !.pc = "failed", !.result = status])

\* an ingestFileById that does not compare the acting user with the owner
IngestPrecheckNoOwner(file, actingUserId, object, embeddingCount) ==
  IF ~file.exists THEN "404"
  ELSE IF object = NoObject THEN "404"
  ELSE IF object = 0 THEN "400"
  ELSE IF SegmentCount(object) = 0 THEN "400"
  ELSE IF embeddingCount # SegmentCount(object) THEN "500"
  ELSE "ok"

\* an ingestFileById that does not compare the number of embeddings with the number of segments
IngestPrecheckNoCount(file, actingUserId, object, embeddingCount) ==
  IF ~file.exists THEN "404"
  ELSE IF file.owner_id # actingUserId THEN "403"
  ELSE IF object = NoObject THEN "404"
  ELSE IF object = 0 THEN "400"
  ELSE IF SegmentCount(object) = 0 THEN "400"
  ELSE "ok"

\* the status ingestFileById throws before its first write ("ok": it goes on)
IngestPrecheck(file, actingUserId, object, embeddingCount) ==
  IF ~file.exists THEN "404"
  ELSE IF file.owner_id # actingUserId THEN "403"
  ELSE IF object = NoObject THEN "404"
  ELSE IF object = 0 THEN "400"
  ELSE IF SegmentCount(object) = 0 THEN "400"
  ELSE IF embeddingCount # SegmentCount(object) THEN "500"
  ELSE "ok"

\* lines 43-162: load the record and the object, segment, embed; nothing is written.
\* Every upload route stores text/plain under a .txt name, so the conversion
\* branch is not taken.
IngestStart(p, f, actingUserId) ==
  /\ runs[p].pc = "idle"
  /\ \E embeddingCount \in {SegmentCount(objects[f]), SegmentCount(objects[f]) + 1} :
       LET file == getFileById(files, folders, f)
           status == IngestPrecheck(file, actingUserId, objects[f], embeddingCount)
           started == [IdleRun EXCEPT !.fileId = f, !.actor = actingUserId, !.file = file,
                                      !.textLen = objects[f], !.segs = SegmentCount(objects[f]),
                                      !.embeddings = embeddingCount,
                                      !.wasReady = (file.exists /\ file.status = "ready")]
       IN runs' = SetRun(p, IF status = "ok" THEN [started EXCEPT !.pc = "select"]
                            ELSE IF status = "500" THEN [started EXCEPT !.pc = "failed", !.result = status]
                            ELSE [started EXCEPT !.pc = "failed", !.result = status,
                                                 !.file = NoRow, !.textLen = 0, !.segs = 0,
                                                 !.embeddings = 0, !.wasReady = FALSE])
  /\ NoResponse
  /\ UNCHANGED <<isV2, team_members, teams, folders, files, objects, file_permissions, chunks,
                 vectors, nextChunk, treqs, acc>>

\* line 164, deleteChunksForFile: SELECT id FROM chunks WHERE file_id
IngestSelect(p) ==
  /\ runs[p].pc = "select"
  /\ runs' = SetRun(p, [runs[p] EXCEPT !.pc = "delete", !.existing = SelectChunkIds(chunks, runs[p].fileId)])
  /\ NoResponse
  /\ UNCHANGED <<isV2, team_members, teams, folders, files, objects, file_permissions, chunks,
                 vectors, nextChunk, treqs, acc>>

\* line 164, deleteChunksForFile: DELETE FROM chunks WHERE file_id
IngestDeleteRows(p) ==
  /\ runs[p].pc = "delete"
  /\ chunks' = DeleteChunkRows(chunks, runs[p].fileId)
  /\ runs' = SetRun(p, [runs[p] EXCEPT !.pc = IF runs[p].existing # {} THEN "delvec" ELSE "insert"])
  /\ NoResponse
  /\ UNCHANGED <<isV2, team_members, teams, folders, files, objects, file_permissions,
                 vectors, nextChunk, treqs, acc>>

\* the metadata argument of the deleteChunkVectors call at line 167: the call
\* passes file.visibility where the metadata object is expected
StaleVectorMetadata(file) == PropertiesOfString

\* lines 165-172: deleteChunkVectors(env, existing, file.visibility, file.owner_id)
IngestDeleteVectors(p) ==
  /\ runs[p].pc = "delvec"
  /\ vectors' = deleteChunkVectors(vectors, isV2, runs[p].existing, StaleVectorMetadata(runs[p].file))
  /\ runs' = SetRun(p, [runs[p] EXCEPT !.pc = "insert"])
  /\ NoResponse
  /\ UNCHANGED <<isV2, team_members, teams, folders, files, objects, file_permissions, chunks,
                 nextChunk, treqs, acc>>

\* crypto.randomUUID(): an id unlike the n ids handed out before
RandomUUID(n) == ToString(n + 1)

\* lines 176-189: chunkId = crypto.randomUUID(); insertChunk without organization_id and team_id
IngestInsertChunk(p) ==
  /\ runs[p].pc = "insert"
  /\ Cardinality(runs[p].inserted) < runs[p].segs
  /\ nextChunk < MaxChunkIds
  /\ chunks' = insertChunk(chunks, ChunkRow(RandomUUID(nextChunk), runs[p].file, UNDEF, UNDEF,
                                            Cardinality(runs[p].inserted)))
  /\ nextChunk' = nextChunk + 1
  /\ runs' = SetRun(p, [runs[p] EXCEPT !.pc = "upsert", !.chunkId = RandomUUID(nextChunk)])
  /\ NoResponse
  /\ UNCHANGED <<isV2, team_members, teams, folders, files, objects, file_permissions,
                 vectors, treqs, acc>>

\* a loop that ends after its first pass
AfterFirstUpsert(index, segs) == "ready"

\* line 175: for (index = 0; index < chunks.length; index += 1), then line 221
AfterUpsert(index, segs) == IF index < segs THEN "insert" ELSE "ready"

\* lines 191-218: upsertChunkVector with metadata that has no organizationId and no teamId;
\* the index may reject the write, and the exception ends the run
IngestUpsertVector(p) ==
  /\ runs[p].pc = "upsert"
  /\ LET file == runs[p].file
         index == Cardinality(runs[p].inserted)
         metadata == VectorMetadata(runs[p].chunkId, file.id, file.visibility, file.owner_id, UNDEF, UNDEF)
     IN \/ /\ vectors' = upsertChunkVector(vectors, isV2, runs[p].chunkId, index + 1, metadata)
           /\ runs' = SetRun(p, [runs[p] EXCEPT !.inserted = @ \cup {runs[p].chunkId},
                                                !.chunkId = NULL,
                                                !.pc = AfterUpsert(index + 1, runs[p].segs)])
        \/ /\ runs' = FailRun(p, "error")
           /\ UNCHANGED vectors
  /\ NoResponse
  /\ UNCHANGED <<isV2, team_members, teams, folders, files, objects, file_permissions, chunks,
                 nextChunk, treqs, acc>>

\* line 221: updateFileStatus(env, activeFile.id, 'ready'); return {chunks: insertedChunks}
IngestMarkReady(p) ==
  /\ runs[p].pc = "ready"
  /\ files' = updateFileStatus(files, runs[p].fileId, "ready")
  /\ runs' = SetRun(p, [runs[p] EXCEPT !.pc = "done", !.result = "ok"])
  /\ NoResponse
  /\ UNCHANGED <<isV2, team_members, teams, folders, objects, file_permissions, chunks,
                 vectors, nextChunk, treqs, acc>>

\* the call has returned or thrown; the next call starts from fresh locals
IngestReturn(p) ==
  /\ runs[p].pc \in {"done", "failed"}
  /\ runs' = SetRun(p, IdleRun)
  /\ NoResponse
  /\ UNCHANGED <<isV2, team_members, teams, folders, files, objects, file_permissions, chunks,
                 vectors, nextChunk, treqs, acc>>

-----------------------------------------------------------------------------
(* Chat handler: routes/session.ts, handleChat *)

Scopes == {"personal", "team", "org", "all"}

RECURSIVE SetToSeq(_)
\* teamIds as the rows come back (one order per set)
SetToSeq(set) ==
  IF set = {} THEN <<>>
  ELSE LET x == CHOOSE y \in set : TRUE IN <<x>> \o SetToSeq(set \ {x})

\* lines 160-170: the namespaces one lookup queries, in the order they are pushed
ChatNamespaces(u, scope, teamIds) ==
  (IF scope \in {"all", "org"} THEN <<organizationNamespace(UserOrg(u))>> ELSE <<>>)
  \o (IF scope \in {"all", "personal"} THEN <<personalNamespace(u)>> ELSE <<>>)
  \o (IF scope \in {"all", "team"} /\ teamIds # {}
      THEN [j \in 1..Cardinality(teamIds) |-> teamNamespace(SetToSeq(teamIds)[j])] ELSE <<>>)

RECURSIVE Flat(_)
\* results.flat()
Flat(lists) == IF Len(lists) = 0 THEN <<>> ELSE Head(lists) \o Flat(Tail(lists))

RECURSIVE MergeKeepLast(_, _)
\* a merge in which a later match of a chunk id replaces the earlier one whatever its score
MergeKeepLast(merged, matches) ==
  IF Len(matches) = 0 THEN merged
  ELSE LET match == Head(matches)
           at == {j \in 1..Len(merged) : merged[j].chunkId = match.chunkId}
       IN IF at = {} THEN MergeKeepLast(Append(merged, match), Tail(matches))
          ELSE MergeKeepLast([merged EXCEPT ![CHOOSE k \in at : TRUE] = match], Tail(matches))

RECURSIVE MergeByChunk(_, _)
\* lines 197-203: one entry per chunk id, in first-seen order, with the greatest score
MergeByChunk(merged, matches) ==
  IF Len(matches) = 0 THEN merged
  ELSE LET match == Head(matches)
           at == {j \in 1..Len(merged) : merged[j].chunkId = match.chunkId}
       IN IF at = {} THEN MergeByChunk(Append(merged, match), Tail(matches))
          ELSE LET j == CHOOSE k \in at : TRUE
               IN IF match.score > merged[j].score
                  THEN MergeByChunk([merged EXCEPT ![j] = match], Tail(matches))
                  ELSE MergeByChunk(merged, Tail(matches))

RECURSIVE SortByScore(_)
\* Array.prototype.sort((a, b) => b.score - a.score): stable, greatest score first
SortByScore(seq) ==
  IF Len(seq) = 0 THEN <<>>
  ELSE LET j == CHOOSE k \in 1..Len(seq) :
                  /\ \A o \in 1..Len(seq) : seq[o].score <= seq[k].score
                  /\ \A o \in 1..(k - 1) : seq[o].score < seq[k].score
       IN <<seq[j]>> \o SortByScore(SubSeq(seq, 1, j - 1) \o SubSeq(seq, j + 1, Len(seq)))

\* lines 197-207: merge, rank, keep the topK best
TopMatches(results, topK) == Take(SortByScore(MergeByChunk(<<>>, Flat(results))), topK)

RECURSIVE ContextsKeepAll(_, _)
\* a mapping that does not drop a match whose chunk row was not found
ContextsKeepAll(top, rows) ==
  IF Len(top) = 0 THEN <<>>
  ELSE LET found == {c \in rows : c.id = Head(top).chunkId}
       IN (IF found = {}
           THEN <<[chunkId |-> Head(top).chunkId, fileId |-> NULL, folderId |-> NULL,
                   chunk_index |-> 0]>>
           ELSE LET ch == CHOOSE c \in found : TRUE
                IN <<[chunkId |-> ch.id, fileId |-> ch.file_id, folderId |-> ch.folder_id,
                      chunk_index |-> ch.chunk_index]>>)
          \o ContextsKeepAll(Tail(top), rows)

RECURSIVE Contexts(_, _)
\* lines 230-252: one source per top match whose chunk row was found, in match order
Contexts(top, rows) ==
  IF Len(top) = 0 THEN <<>>
  ELSE LET found == {c \in rows : c.id = Head(top).chunkId}
       IN (IF found = {} THEN <<>>
           ELSE LET ch == CHOOSE c \in found : TRUE
                IN <<[chunkId |-> ch.id, fileId |-> ch.file_id, folderId |-> ch.folder_id,
                      chunk_index |-> ch.chunk_index]>>)
          \o Contexts(Tail(top), rows)

\* the response of one chat request, with what the handler did on the way:
\* whether it asked for an embedding of the question (embedded), the
\* namespaces it queried, the queries that threw (failed), the stored entries
\* each query returned (raw), the merged top matches, and the rows the request
\* inserted into the chat log (recorded)
ChatResponse(kind, u, scope, embedded, namespaces, failed, raw, top, citations, sources, recorded) ==
  [kind |-> kind, user |-> u, scope |-> scope, embedded |-> embedded, namespaces |-> namespaces,
   failed |-> failed, raw |-> raw, top |-> top, citations |-> citations, sources |-> sources,
   recorded |-> recorded]

\* citations: [] of the fixed responses
NoCitations == "empty"

\* generateGeneralAnswer(env, message).citations ?? []: general chat has no citations
GeneralCitations == "empty"

\* generateStructuredAnswer(env, {question, contexts}).citations ?? []: what the
\* completion model chose to cite
StructuredCitations == "model"

\* the row recordChat binds for a response: who asked, which answer, which citations
ChatRow(u, kind, citations) == [user_id |-> u, answer |-> kind, citations |-> citations]

\* a recordChat whose INSERT stores nothing
recordNothing(log, row) == log

\* recordChat: INSERT INTO messages, one row per call
recordChat(log, row) == Append(log, row)

\* a handler that has no placeholder for a caller without a team
NeverJoinTeam(scope, teamIds) == FALSE

\* line 172: scope === 'team' && !teamIds.length
JoinTeam(scope, teamIds) == scope = "team" /\ teamIds = {}

\* a fan-out whose callbacks do not catch: the promise of every failing query rejects
UncaughtQueries(failing) == failing

\* lines 186-193: the callbacks of the fan-out whose promise rejects; each
\* callback catches the error of its query and returns [], so none does
RejectedQueries(failing) == {}

\* a handler that takes every message for a lookup
alwaysLookup(knowledgeMode, lookupMatch) == TRUE

\* line 123: shouldLookup = knowledgeMode || Boolean(lookupMatch), lookupMatch
\* being whether the message is a /lookup command
shouldLookup(knowledgeMode, lookupMatch) == knowledgeMode \/ lookupMatch

\* handleChat for a non-empty message; question: the embedding of the lookup
\* query; failing: the positions in namespaces of the queries that throw
handleChat(u, knowledgeMode, lookupMatch, scope, question, failing) ==
  LET teamIds == listActiveTeamIdsForUser(team_members, u)
      namespaces == ChatNamespaces(u, scope, teamIds)
      results == [j \in 1..Len(namespaces) |->
                    IF j \in failing THEN <<>>
                    ELSE queryNamespace(vectors, isV2, namespaces[j], question, TopK)]
      raw == [j \in 1..Len(namespaces) |->
                IF j \in failing THEN <<>>
                ELSE QueryRaw(vectors, isV2, namespaces[j], question, TopK)]
      top == TopMatches(results, TopK)
      rows == getChunksByIds(chunks, files, folders, {top[j].chunkId : j \in 1..Len(top)})
      contexts == Contexts(top, rows)
  IN IF ~shouldLookup(knowledgeMode, lookupMatch)
       THEN ChatResponse("general", u, NULL, FALSE, <<>>, {}, <<>>, <<>>, GeneralCitations, <<>>,
                         recordChat(<<>>, ChatRow(u, "general", GeneralCitations)))
     ELSE IF JoinTeam(scope, teamIds)
       THEN ChatResponse("join-team", u, scope, TRUE, namespaces, {}, <<>>, <<>>, NoCitations, <<>>,
                         recordChat(<<>>, ChatRow(u, "join-team", NoCitations)))
     ELSE IF RejectedQueries(failing) # {}
       THEN ChatResponse("error", u, scope, TRUE, namespaces, failing, raw, <<>>, NoCitations, <<>>, <<>>)
     ELSE IF Len(top) = 0
       THEN ChatResponse("not-found", u, scope, TRUE, namespaces, failing, raw, top, NoCitations, <<>>, <<>>)
     ELSE IF Len(contexts) = 0
       THEN ChatResponse("not-found", u, scope, TRUE, namespaces, failing, raw, top, NoCitations, <<>>, <<>>)
     ELSE ChatResponse("answer", u, scope, TRUE, namespaces, failing, raw, top, StructuredCitations,
                       contexts, recordChat(<<>>, ChatRow(u, "answer", StructuredCitations)))

\* one chat request; a query can fail only where there is a namespace to query
Chat(u, knowledgeMode, lookupMatch, scope, question, failing) ==
  /\ chat = NoChat
  /\ LET teamIds == listActiveTeamIdsForUser(team_members, u)
         queried == IF shouldLookup(knowledgeMode, lookupMatch) /\ ~(scope = "team" /\ teamIds = {})
                    THEN DOMAIN ChatNamespaces(u, scope, teamIds) ELSE {}
     IN failing \subseteq queried
  /\ chat' = handleChat(u, knowledgeMode, lookupMatch, scope, question, failing)
  /\ UNCHANGED <<isV2, team_members, teams, folders, files, objects, file_permissions, chunks,
                 vectors, nextChunk, runs, treqs, acc>>

\* c.json(...): the response leaves the handler
ChatRespond ==
  /\ chat # NoChat
  /\ chat' = NoChat
  /\ UNCHANGED <<isV2, team_members, teams, folders, files, objects, file_permissions, chunks,
                 vectors, nextChunk, runs, treqs, acc>>

-----------------------------------------------------------------------------
(* Specification of files, ingestion, sharing, deletion and chat *)

\* the queries of one fan-out that throw: the first, the second, or all three
FailingSets == {{1}, {2}, {1, 2, 3}}

\* the teams a request names when it uploads to or shares with a team
ShareTeams == {"t1"}

\* permissions: [] of a sharing request
NoPermissions == <<>>

\* the handlers that write to the stores
StoreNext ==
  \/ \E u \in Users, d \in FolderIds, v \in Visibilities, t \in ShareTeams \cup {NULL}, len \in TextLens :
       CreateFile(u, d, v, t, len)
  \/ \E u \in Users, d \in FolderIds, v \in Visibilities, t \in ShareTeams \cup {NULL} :
       UploadUrl(u, d, v, t)
  \/ \E f \in FileIds, len \in TextLens : PutObject(f, len)
  \/ \E u \in Users, f \in FileIds, v \in Visibilities, t \in ShareTeams \cup {NULL} :
       UpdateFileSharing(u, f, v, t, NoPermissions)
  \/ \E u \in Users, f \in FileIds : DeleteFile(u, f)
  \/ \E p \in RunIds, f \in FileIds, u \in Users : IngestStart(p, f, u)
  \/ \E p \in RunIds : IngestSelect(p)
  \/ \E p \in RunIds : IngestDeleteRows(p)
  \/ \E p \in RunIds : IngestDeleteVectors(p)
  \/ \E p \in RunIds : IngestInsertChunk(p)
  \/ \E p \in RunIds : IngestUpsertVector(p)
  \/ \E p \in RunIds : IngestMarkReady(p)
  \/ \E p \in RunIds : IngestReturn(p)

Next ==
  \/ StoreNext
  \/ \E u \in Users, k \in BOOLEAN, l \in BOOLEAN, sc \in Scopes, q \in Questions :
       Chat(u, k, l, sc, q, {})
  \/ ChatRespond

Spec == Init /\ [][Next]_vars

\* the same handlers, with knowledge-mode chats in which queries of the fan-out throw
FanoutNext ==
  \/ StoreNext
  \/ \E u \in Users, sc \in Scopes, q \in Questions, failing \in FailingSets : Chat(u, TRUE, FALSE, sc, q, failing)
  \/ ChatRespond

FanoutSpec == Init /\ [][FanoutNext]_vars

\* the access levels updateFileSharing accepts
AccessLevels == {"viewer", "editor"}

\* permissions of a sharing request that grants one user one access level
GrantLists == {[x \in {g} |-> level] : g \in Users, level \in AccessLevels}

\* personal files shared with single users: upload, sharing requests that
\* grant access, ingestion, and chats with scope personal
GrantNext ==
  \/ \E u \in Users, d \in FolderIds, len \in TextLens : CreateFile(u, d, "personal", NULL, len)
  \/ \E u \in Users, f \in FileIds, permissions \in GrantLists :
       UpdateFileSharing(u, f, "personal", NULL, permissions)
  \/ \E p \in RunIds, f \in FileIds, u \in Users : IngestStart(p, f, u)
  \/ \E p \in RunIds : IngestSelect(p)
  \/ \E p \in RunIds : IngestDeleteRows(p)
  \/ \E p \in RunIds : IngestDeleteVectors(p)
  \/ \E p \in RunIds : IngestInsertChunk(p)
  \/ \E p \in RunIds : IngestUpsertVector(p)
  \/ \E p \in RunIds : IngestMarkReady(p)
  \/ \E p \in RunIds : IngestReturn(p)
  \/ \E u \in Users, q \in Questions : Chat(u, TRUE, FALSE, "personal", q, {})
  \/ ChatRespond

GrantSpec == Init /\ [][GrantNext]_vars

\* what a request body can carry as team id: a team, null, or nothing
BodyTeamIds == ShareTeams \cup {NULL, UNDEF}

\* folders and files that change visibility and team: folder creation and
\* update, upload, file update and sharing requests
FolderNext ==
  \/ \E u \in Users, v \in Visibilities, t \in BodyTeamIds : CreateFolder(u, v, t)
  \/ \E u \in Users, d \in FolderIds \cup NewFolderIds, v \in Visibilities \cup {UNDEF},
        t \in BodyTeamIds : UpdateFolder(u, d, v, t)
  \/ \E u \in Users, d \in FolderIds \cup NewFolderIds, v \in Visibilities, t \in BodyTeamIds,
        len \in TextLens : CreateFile(u, d, v, t, len)
  \/ \E u \in Users, f \in FileIds, renames \in BOOLEAN, v \in Visibilities \cup {UNDEF},
        t \in BodyTeamIds : UpdateFile(u, f, renames, v, t)
  \/ \E u \in Users, f \in FileIds, v \in Visibilities, t \in BodyTeamIds :
       UpdateFileSharing(u, f, v, t, NoPermissions)

FolderSpec == Init /\ [][FolderNext]_vars

\* the text of the uploads of the specification of concurrent runs: one segment
RaceTextLens == {1000}

\* two ingestion runs of the owner's file in flight together, with upload and
\* deletion of the file
RaceNext ==
  \/ \E len \in RaceTextLens : CreateFile("u1", "private-root", "personal", NULL, len)
  \/ \E f \in FileIds : DeleteFile("u1", f)
  \/ \E p \in AllRunIds, f \in FileIds : IngestStart(p, f, "u1")
  \/ \E p \in AllRunIds : IngestSelect(p)
  \/ \E p \in AllRunIds : IngestDeleteRows(p)
  \/ \E p \in AllRunIds : IngestDeleteVectors(p)
  \/ \E p \in AllRunIds : IngestInsertChunk(p)
  \/ \E p \in AllRunIds : IngestUpsertVector(p)
  \/ \E p \in AllRunIds : IngestMarkReady(p)
  \/ \E p \in AllRunIds : IngestReturn(p)

RaceSpec == Init /\ [][RaceNext]_vars

-----------------------------------------------------------------------------
(* Retrieval properties *)

\* the chat handled by the last step was a knowledge-mode lookup
IsLookup == chat.kind \in {"answer", "not-found", "join-team"}

\* the read rule of the visibility model, for a file
CanRead(u, file) ==
  \/ file.visibility = "organization" /\ file.organization_id = UserOrg(u)
  \/ file.visibility = "personal" /\ file.owner_id = u
  \/ file.visibility = "team" /\ file.team_id \in Teams /\ team_members[<<file.team_id, u>>] = "active"

\* C1: every chunk a knowledge-mode chat returns in sources belongs to a file
\* the caller may read (organization-visible in the caller's organization,
\* personal and owned by the caller, or team-visible for an active team of the caller)
C1_SourcesReadable ==
  chat.kind = "answer" =>
    \A j \in DOMAIN chat.sources :
      /\ files[chat.sources[j].fileId].exists
      /\ CanRead(chat.user, files[chat.sources[j].fileId])

\* C2: every stored entry a namespace query returned carries the visibility and
\* the identifier that the namespace token encodes
C2_QueryStaysInNamespace ==
  IsLookup =>
    \A j \in DOMAIN chat.raw :
      \A k \in DOMAIN chat.raw[j] :
        MatchesFilter(chat.raw[j][k].metadata, filterFromNamespace(chat.namespaces[j]))

\* the namespace token decodes to this visibility tier and this identifier
Denotes(ns, scopeTag, id) ==
  /\ ns.scope = scopeTag
  /\ decodeIdentifier(ns.token) = CharCodes(id)

\* namespace ns is one the caller u is entitled to under the scope
EntitledNamespace(ns, u, scope) ==
  \/ scope \in {"personal", "all"} /\ Denotes(ns, "user", u)
  \/ scope \in {"org", "all"} /\ Denotes(ns, "org", UserOrg(u))
  \/ scope \in {"team", "all"} /\ \E t \in Teams : team_members[<<t, u>>] = "active" /\ Denotes(ns, "team", t)

\* C3: a knowledge-mode chat queries exactly the caller's own user namespace
\* (personal), the caller's organization namespace (org), one namespace per
\* active team membership (team), or the union (all), and nothing else
C3_NamespacesExact ==
  IsLookup =>
    LET queried == {chat.namespaces[j] : j \in DOMAIN chat.namespaces}
    IN /\ \A ns \in queried : EntitledNamespace(ns, chat.user, chat.scope)
       /\ chat.scope \in {"personal", "all"} => \E ns \in queried : Denotes(ns, "user", chat.user)
       /\ chat.scope \in {"org", "all"} => \E ns \in queried : Denotes(ns, "org", UserOrg(chat.user))
       /\ chat.scope \in {"team", "all"} =>
            \A t \in Teams : team_members[<<t, chat.user>>] = "active" =>
               \E ns \in queried : Denotes(ns, "team", t)
       /\ Cardinality(queried) = Len(chat.namespaces)

\* C3 witness: a lookup with scope all by a caller with an active team queried three namespaces
C3_Witness ==
  /\ IsLookup /\ chat.scope = "all" /\ chat.user = "u1"
  /\ Len(chat.namespaces) = 3
  /\ chat.kind = "answer"

\* the entries of the index that ingestion stored for a file that was and still
\* is organization-visible, and whose chunk row is there
OrgEntries ==
  {e \in vectors : /\ e.metadata.visibility = "organization"
                    /\ e.metadata.fileId \in FileIds
                    /\ files[e.metadata.fileId].exists
                    /\ files[e.metadata.fileId].visibility = "organization"
                    /\ files[e.metadata.fileId].status = "ready"
                    /\ e.id \in {c.id : c \in chunks}}

\* the entry lies in the partition a query of namespace ns reads: the same
\* namespace on a namespaced index, metadata that passes the derived filter on
\* a global one
InPartition(e, ns) ==
  IF isV2 THEN MatchesFilter(e.metadata, filterFromNamespace(ns)) ELSE e.ns = ns

\* C12: a knowledge-mode chat with scope org by a member of the organisation
\* queries the partition in which ingestion stored the vectors of an
\* organization-visible file, and returns the file's matching chunks in sources
C12_OrgFileRetrieved ==
  (chat.kind \in {"answer", "not-found"} /\ chat.scope = "org") =>
    \A e \in OrgEntries :
      /\ InPartition(e, organizationNamespace(UserOrg(chat.user)))
      /\ \E j \in DOMAIN chat.sources : chat.sources[j].chunkId = e.id

\* the chunk ids of the stored entries that the queries which did not throw returned
SurvivingIds ==
  UNION {{Coalesce(chat.raw[j][k].metadata.chunkId, chat.raw[j][k].id) : k \in DOMAIN chat.raw[j]} :
           j \in DOMAIN chat.raw \ chat.failed}

\* C14: when queries of the fan-out throw, the request still completes (it
\* answers, or reports that nothing was found), each failing namespace
\* contributes no match, every other namespace contributes what the index
\* returns for it, and the merged matches are those of the other namespaces
C14_FailureContained ==
  (chat.kind # "none" /\ chat.failed # {}) =>
    /\ chat.kind \in {"answer", "not-found"}
    /\ \A j \in chat.failed : chat.raw[j] = <<>>
    /\ \A j \in DOMAIN chat.raw \ chat.failed :
         chat.raw[j] = QueryRaw(vectors, isV2, chat.namespaces[j], 1, TopK)
    /\ {chat.top[t].chunkId : t \in DOMAIN chat.top} = SurvivingIds

\* C14 witness: with scope all the query of the organisation namespace threw
\* and the chat answered from the matches of another namespace
C14_Witness ==
  /\ chat.kind = "answer" /\ chat.scope = "all" /\ chat.failed = {1}
  /\ Len(chat.namespaces) = 3
  /\ chat.raw[2] # <<>>
  /\ Len(chat.sources) > 0

\* C15: a knowledge-mode chat with scope team by a caller who has no active
\* team membership returns the join-a-team placeholder with no citations and
\* no sources, and sends no query to the vector index
C15_JoinTeamPlaceholder ==
  (/\ chat.kind # "none" /\ chat.embedded /\ chat.scope = "team"
   /\ \A t \in Teams : team_members[<<t, chat.user>>] # "active") =>
    /\ chat.kind = "join-team"
    /\ chat.citations = "empty"
    /\ chat.sources = <<>>
    /\ chat.namespaces = <<>>
    /\ chat.raw = <<>>

\* C15 witness: a caller whose only membership is a pending invitation got the
\* placeholder while the index held vectors
C15_Witness ==
  /\ chat.kind = "join-team" /\ chat.user = "u2"
  /\ team_members[<<"t2", "u2">>] = "pending"
  /\ vectors # {}

\* a chunk id resolves when the store holds its chunk row together with the
\* file and the folder the row belongs to
Resolves(chunkId) ==
  \E c \in chunks : c.id = chunkId /\ files[c.file_id].exists /\ folders[c.folder_id].exists

ResolvingMatch(m) == Resolves(m.chunkId)

\* C16: the sources of a knowledge-mode chat are exactly the merged top
\* matches whose chunk id resolves in the relational store, in the merged
\* order of descending score, each described by its chunk row; a match that
\* does not resolve is dropped and the request still returns a response
C16_SourcesAreResolvedMatches ==
  chat.kind \in {"answer", "not-found"} =>
    LET kept == SelectSeq(chat.top, ResolvingMatch)
    IN /\ \A j \in 1..(Len(chat.top) - 1) : chat.top[j].score >= chat.top[j + 1].score
       /\ Len(chat.sources) = Len(kept)
       /\ \A j \in 1..Len(kept) :
            /\ chat.sources[j].chunkId = kept[j].chunkId
            /\ \E c \in chunks : /\ c.id = kept[j].chunkId
                                 /\ chat.sources[j].fileId = c.file_id
                                 /\ chat.sources[j].folderId = c.folder_id
                                 /\ chat.sources[j].chunk_index = c.chunk_index

\* C16 witness: an answer whose top matches held a chunk id that resolves and
\* one that does not
C16_Witness ==
  /\ chat.kind = "answer"
  /\ Len(chat.sources) >= 1
  /\ Len(chat.top) > Len(chat.sources)

\* C17: a knowledge-mode chat that returns the answer of the completion model
\* or the join-a-team placeholder inserts exactly one chat record, holding
\* the caller, that answer and its citations; a chat that returns the fixed
\* nothing-relevant-found answer inserts none
C17_ModelAnswerRecordedOnce ==
  /\ chat.kind \in {"answer", "join-team"} =>
       chat.recorded = <<ChatRow(chat.user, chat.kind, chat.citations)>>
  /\ chat.kind = "not-found" => chat.recorded = <<>>

\* C17 as stated: every knowledge-mode chat that returns an answer, the fixed
\* nothing-relevant-found answer included, inserts exactly one chat record
C17_EveryAnswerRecorded ==
  chat.kind \in {"answer", "join-team", "not-found"} =>
    chat.recorded = <<ChatRow(chat.user, chat.kind, chat.citations)>>

\* C17 witness: an answer drawn from at least one source was recorded once
C17_Witness ==
  /\ chat.kind = "answer"
  /\ Len(chat.sources) >= 1
  /\ Len(chat.recorded) = 1
  /\ chat.recorded[1].citations = StructuredCitations

\* C18: a chat with knowledgeMode false whose message is not a /lookup
\* command asks for no embedding and sends no query to the vector index, and
\* its response has no citations and no sources
C18_GeneralChatSkipsRetrieval ==
  [][\A u \in Users, sc \in Scopes, q \in Questions :
       Chat(u, FALSE, FALSE, sc, q, {}) =>
         /\ chat'.embedded = FALSE
         /\ chat'.namespaces = <<>>
         /\ chat'.raw = <<>>
         /\ chat'.citations = "empty"
         /\ chat'.sources = <<>>]_vars

\* C18 witness: a general chat was answered while the index held vectors
C18_Witness ==
  /\ chat.kind = "general"
  /\ chat.embedded = FALSE
  /\ vectors # {}

\* the indexed chunks of the ready personal files that belong to someone else
\* and to which u was granted access by a file_permissions row
GrantedEntries(u) ==
  {e \in vectors :
     /\ files[e.metadata.fileId].exists
     /\ files[e.metadata.fileId].visibility = "personal"
     /\ files[e.metadata.fileId].owner_id # u
     /\ files[e.metadata.fileId].status = "ready"
     /\ \E fp \in file_permissions : fp.file_id = e.metadata.fileId /\ fp.user_id = u
     /\ Resolves(e.id)}

\* C19: a knowledge-mode chat with scope personal also retrieves the chunks of
\* files the caller does not own but was granted access to by a
\* file_permissions row, viewer or editor
C19_GrantedFileRetrieved ==
  (chat.kind \in {"answer", "not-found"} /\ chat.scope = "personal") =>
    \A e \in GrantedEntries(chat.user) :
      \E j \in DOMAIN chat.sources : chat.sources[j].chunkId = e.id

-----------------------------------------------------------------------------
(* Ingestion properties *)

\* the ids of the chunk rows of a file
ChunkIdsOfFile(f) == {c.id : c \in {r \in chunks : r.file_id = f}}

\* run p has returned successfully and no deletion of its file interfered
Succeeded(p) == runs[p].pc = "done" /\ runs[p].result = "ok" /\ runs[p].clean

\* C4: when an ingestion run of a file has succeeded (in particular the second
\* of two runs executed one after the other), the file's chunk rows are exactly
\* the rows that run inserted: no earlier chunk id remains and the number of
\* rows is the number of segments of the text the run read
C4_OneGeneration ==
  \A p \in RunIds :
    Succeeded(p) =>
      /\ ChunkIdsOfFile(runs[p].fileId) = runs[p].inserted
      /\ ChunkIdsOfFile(runs[p].fileId) \cap runs[p].existing = {}
      /\ Cardinality(ChunkIdsOfFile(runs[p].fileId)) = SegmentCount(runs[p].textLen)
      /\ runs[p].textLen = objects[runs[p].fileId]

\* C4 witness: a second run over a file that an earlier run had made ready
\* and that had chunk rows has succeeded
C4_Witness ==
  \E p \in RunIds : Succeeded(p) /\ runs[p].wasReady /\ runs[p].existing # {}

\* C5: once a run has passed its deletion step, no entry of the vector index
\* is keyed by one of the file's previous chunk ids, whatever the visibility
\* and the index shape
C5_OldVectorsRemoved ==
  \A p \in RunIds :
    runs[p].pc \in {"insert", "upsert", "ready", "done"} =>
      \A e \in vectors : e.id \notin runs[p].existing

\* C10: ingestFileById throws 404 when the file record is missing, 403 when the
\* record is there and the acting user is not its owner, 404 when the owner's
\* object is missing; in these cases chunk rows, vector entries, objects and
\* the file's status are left as they were
C10_RejectsWithoutChange ==
  [][\A p \in RunIds :
       (runs[p].pc = "idle" /\ runs'[p].pc # "idle") =>
         LET f == runs'[p].fileId
             a == runs'[p].actor
             file == getFileById(files, folders, f)
             rejected(status) == runs'[p].pc = "failed" /\ runs'[p].result = status
         IN /\ ~file.exists => rejected("404")
            /\ (file.exists /\ file.owner_id # a) => rejected("403")
            /\ (file.exists /\ file.owner_id = a /\ objects[f] = NoObject) => rejected("404")
            /\ runs'[p].result \in {"404", "403"} =>
                 /\ UNCHANGED <<chunks, vectors, objects, files, nextChunk>>
                 /\ ~file.exists \/ file.owner_id # a \/ objects[f] = NoObject]_vars

\* C10 witness: a call by a user who is not the owner was rejected with 403
\* while the file had chunk rows and vector entries, and another state where
\* the record was there and the object was not
C10_Witness ==
  \E p \in RunIds :
    /\ runs[p].pc = "failed" /\ runs[p].result = "403"
    /\ files[runs[p].fileId].exists
    /\ files[runs[p].fileId].owner_id # runs[p].actor
    /\ ChunkIdsOfFile(runs[p].fileId) # {}
    /\ vectors # {}

\* C11: a call whose provider returns a number of embeddings other than the
\* number of segments sent fails (500), and chunk rows, vector entries, objects
\* and the files table (the status with it) are left as they were; a run that
\* goes on to its writes has one embedding per segment
C11_MismatchFailsWithoutChange ==
  [][\A p \in RunIds :
       (runs[p].pc = "idle" /\ runs'[p].pc # "idle") =>
         /\ runs'[p].embeddings # runs'[p].segs =>
              /\ runs'[p].pc = "failed" /\ runs'[p].result = "500"
              /\ UNCHANGED <<chunks, vectors, objects, files, nextChunk>>
         /\ runs'[p].pc # "failed" => runs'[p].embeddings = runs'[p].segs]_vars

\* C11 witness: a re-ingestion of a ready file with chunk rows and vector
\* entries failed on the embedding count
C11_Witness ==
  \E p \in RunIds :
    /\ runs[p].pc = "failed" /\ runs[p].result = "500"
    /\ runs[p].embeddings # runs[p].segs
    /\ runs[p].wasReady
    /\ files[runs[p].fileId].exists /\ files[runs[p].fileId].status = "ready"
    /\ ChunkIdsOfFile(runs[p].fileId) # {}
    /\ vectors # {}

C21_FailedRunLeavesUploading ==
  \A p \in RunIds :
    (/\ runs[p].pc = "failed" /\ runs[p].result = "error"
     /\ files[runs[p].fileId].exists
     /\ Cardinality(runs[p].inserted) < runs[p].segs) =>
      files[runs[p].fileId].status = "uploading"

\* C22: every chunk row and every vector entry an ingestion run creates
\* carries the organization id, visibility, owner id and team id of the file
\* row the run read
C22_ChunksCarryFileAttributes ==
  [][\A p \in RunIds :
       /\ (runs[p].pc = "insert" /\ runs'[p].pc = "upsert") =>
            \A c \in chunks' \ chunks :
              /\ c.organization_id = runs[p].file.organization_id
              /\ c.visibility = runs[p].file.visibility
              /\ c.owner_id = runs[p].file.owner_id
              /\ c.team_id = runs[p].file.team_id
       /\ (runs[p].pc = "upsert" /\ runs'[p].pc \in {"insert", "ready"}) =>
            \A e \in vectors' \ vectors :
              /\ e.metadata.organizationId = runs[p].file.organization_id
              /\ e.metadata.visibility = runs[p].file.visibility
              /\ e.metadata.ownerId = runs[p].file.owner_id
              /\ e.metadata.teamId = runs[p].file.team_id]_vars

\* every folder and every file with visibility team has a team id
TeamIdPresent ==
  /\ \A d \in DOMAIN folders :
       (folders[d].exists /\ folders[d].visibility = "team") => Truthy(folders[d].team_id)
  /\ \A f \in FileIds :
       (files[f].exists /\ files[f].visibility = "team") => Truthy(files[f].team_id)

\* every request that asks for team visibility without a team id is answered 400
MissingTeamIdRejected ==
  \A u \in Users, t \in {NULL, UNDEF} :
    /\ CreateFolderResponse(u, "team", t) = "400"
    /\ \A d \in DOMAIN folders :
         /\ UpdateFolderResponse(u, d, "team", t) = "400"
         /\ ~getFolderById(folders, d).exists => EnsureRejects(d, "team", t)
    /\ \A f \in FileIds :
         /\ \A renames \in BOOLEAN : UpdateFileResponse(u, f, renames, "team", t) = "400"
         /\ updateFileSharingStatus(files, f, "team", t) = "400"

\* no step is the effect of a request for team visibility without a team id
MissingTeamIdChangesNothing ==
  \A u \in Users, t \in {NULL, UNDEF} :
    /\ ~CreateFolder(u, "team", t)
    /\ \A d \in DOMAIN folders : ~UpdateFolder(u, d, "team", t)
    /\ \A f \in FileIds :
         /\ \A renames \in BOOLEAN : ~UpdateFile(u, f, renames, "team", t)
         /\ ~UpdateFileSharing(u, f, "team", t, PermissionsOf(file_permissions, f))

\* C23: in every state reached by folder creation, folder update, upload,
\* file update and sharing requests, every folder and every file with
\* visibility team has a team id; a request that asks for team visibility
\* without one is answered with a validation error and changes nothing
C23_TeamVisibilityHasTeamId ==
  /\ [](TeamIdPresent /\ MissingTeamIdRejected)
  /\ [][MissingTeamIdChangesNothing]_vars

\* C23 witness: a created team folder holds a file that was made a team file
\* and the shared root folder was made a team folder
C23_Witness ==
  /\ \E d \in NewFolderIds : folders[d].exists /\ folders[d].visibility = "team"
  /\ \E f \in FileIds : files[f].exists /\ files[f].visibility = "team" /\ files[f].team_id = "t1"
  /\ folders["public-root"].visibility = "team"

\* C29: only the owner of a file changes its visibility, team or permissions:
\* an update-file or update-sharing request of any other user is answered
\* with an error (Forbidden when the body is valid) and no step applies such a
\* request to the file row, its chunk rows or its file_permissions
C29_OnlyOwnerChangesSharing ==
  [][\A u \in Users, f \in FileIds :
       (files[f].exists /\ files[f].owner_id # u) =>
         \A v \in Visibilities, t \in BodyTeamIds :
           /\ UpdateFileSharingResponse(u, f, v, t) \in {"400", "403"}
           /\ ~UpdateFileSharing(u, f, v, t, NoPermissions)
           /\ \A renames \in BOOLEAN :
                /\ UpdateFileResponse(u, f, renames, v, t) \in {"400", "403"}
                /\ ~UpdateFile(u, f, renames, v, t)]_vars

\* both calls in flight have returned successfully from an ingestion of file f
\* and no deletion of the file interfered
BothSucceeded(f) ==
  \A p \in AllRunIds : runs[p].fileId = f /\ runs[p].pc = "done" /\ runs[p].result = "ok"
                        /\ runs[p].clean

\* C24: two ingestion runs of one file are not kept apart: when both have
\* returned, the file's chunk rows are the complete generation of the run
\* that deleted last together with whatever the other run inserted after that
\* deletion, so the rows can stem from both runs
C24_GenerationsCanMix ==
  \A f \in FileIds :
    BothSucceeded(f) =>
      /\ \E p \in AllRunIds : runs[p].inserted \subseteq ChunkIdsOfFile(f)
      /\ ChunkIdsOfFile(f) \subseteq UNION {runs[p].inserted : p \in AllRunIds}
      /\ \A p \in AllRunIds : Cardinality(runs[p].inserted) = runs[p].segs

\* C24 witness: both runs have returned and the file holds chunk rows of both,
\* more rows than the text has segments
C24_Witness ==
  \E f \in FileIds :
    /\ BothSucceeded(f)
    /\ \A p \in AllRunIds : runs[p].inserted \cap ChunkIdsOfFile(f) # {}
    /\ Cardinality(ChunkIdsOfFile(f)) > SegmentCount(objects[f])

\* the partition the vector entries of a files row belong to
FilePartition(file) ==
  partitionForVisibility(VectorMetadata("", file.id, file.visibility, file.owner_id,
                                        file.organization_id, file.team_id))

\* C28: when a sharing update moves a file to another partition (its
\* visibility or team changes), afterwards every vector entry of the file is
\* stored under or filterable by the new partition, and a query on the old
\* partition returns none of them
C28_VectorsFollowVisibility ==
  [][\A f \in FileIds :
       (/\ files[f].exists /\ files'[f].exists
        /\ FilePartition(files'[f]) # FilePartition(files[f])) =>
         \A e \in vectors' :
           e.metadata.fileId = f =>
             /\ InPartition(e, FilePartition(files'[f]))
             /\ LET old == QueryRaw(vectors', isV2, FilePartition(files[f]), 1, TopK)
                IN \A j \in DOMAIN old : old[j] # e]_vars

\* no call of ingestFileById is in flight, none has failed and no deletion of
\* the file ran while one was in flight
AllRunsTerminated ==
  \A p \in AllRunIds :
    runs[p].pc \in {"idle", "done"} /\ (runs[p].pc = "done" => runs[p].result = "ok" /\ runs[p].clean)

\* C27: once every ingestion run of a file that is still there has returned
\* successfully, each entry of the vector index written for the file is keyed
\* by the id of a chunk row that exists: the index holds no orphan entry, also
\* after two runs of the file that interleaved
C27_NoOrphanVectors ==
  \A f \in FileIds :
    (files[f].exists /\ AllRunsTerminated) =>
      \A e \in vectors : e.metadata.fileId = f => \E c \in chunks : c.id = e.id

\* C25: within one ingestion run the deletion of the file's previous chunk
\* rows and of their vector entries has returned before the first new chunk
\* row is inserted, no deletion follows an insert, and the file is marked
\* ready only when every segment has its chunk row and vector entry written,
\* the number of inserted chunks being the number of segments
C25_RunIsSequential ==
  [][\A p \in RunIds :
       /\ (runs[p].pc \in {"delete", "delvec"} /\ runs'[p].pc # runs[p].pc) =>
            /\ runs[p].inserted = {} /\ runs[p].chunkId = NULL
            /\ runs'[p].pc = "insert" \/ (runs[p].pc = "delete" /\ runs[p].existing # {}
                                           /\ runs'[p].pc = "delvec")
       /\ (runs[p].pc = "insert" /\ runs'[p].pc = "upsert") =>
            /\ \A c \in chunks : c.id \notin runs[p].existing
            /\ \A c \in chunks' \ chunks : c.chunk_index = Cardinality(runs[p].inserted)
       /\ (runs[p].pc # "done" /\ runs'[p].pc = "done") =>
            /\ runs[p].pc = "ready"
            /\ Cardinality(runs[p].inserted) = runs[p].segs
            /\ runs[p].chunkId = NULL]_vars

\* C25 witness: an ingestion of a text of two segments has marked the file
\* ready with both chunk rows of the run in the store
C25_Witness ==
  \E p \in RunIds :
    /\ runs[p].pc = "done" /\ runs[p].result = "ok"
    /\ runs[p].segs = 2 /\ Cardinality(runs[p].inserted) = 2
    /\ files[runs[p].fileId].exists /\ files[runs[p].fileId].status = "ready"
    /\ runs[p].inserted = ChunkIdsOfFile(runs[p].fileId)

-----------------------------------------------------------------------------
(* Specification of the access check: every bounded input, one call each *)

\* folder rows: the reserved root id and an ordinary id; a team folder has a
\* team id (createFolder, ensureFolder and updateFolder refuse one without);
\* owner_id is NULL for the seeded root and for organisation folders that
\* migration 0003 carried over from ownerless public folders
AccessFolders ==
  {FolderRow(id, vis, owner, team, deleted) :
     id \in {"public-root", "d1"}, vis \in Visibilities, owner \in Users \cup {NULL},
     team \in Teams \cup {NULL}, deleted \in BOOLEAN}

AccessInputs ==
  {[pc |-> "call", folder |-> folder, userId |-> u, mode |-> mode, teamIds |-> teamIds, result |-> ""] :
     folder \in {d \in AccessFolders : (d.visibility = "team") <=> (d.team_id # NULL)},
     u \in Users, mode \in {"read", "write"}, teamIds \in SUBSET Teams}

AccessInit ==
  /\ acc \in AccessInputs
  /\ isV2 = FALSE
  /\ team_members = SeedMembers
  /\ teams = Teams
  /\ folders = SeedFolders
  /\ files = [f \in FileIds |-> NoRow]
  /\ objects = [f \in FileIds |-> NoObject]
  /\ file_permissions = {}
  /\ chunks = {}
  /\ vectors = {}
  /\ nextChunk = 0
  /\ runs = [p \in AllRunIds |-> IdleRun]
  /\ chat = NoChat
  /\ treqs = [r \in ReqIds |-> IdleReq]

\* assertFolderAccess(folder, userId, mode, teamIds) is called and returns or throws
AccessCheck ==
  /\ acc.pc = "call"
  /\ acc' = [acc EXCEPT !.pc = "checked",
                        !.result = assertFolderAccess(acc.folder, acc.userId, acc.mode, acc.teamIds)]
  /\ UNCHANGED <<isV2, team_members, teams, folders, files, objects, file_permissions, chunks,
                 vectors, nextChunk, runs, chat, treqs>>

AccessNext == AccessCheck

AccessSpec == AccessInit /\ [][AccessNext]_vars

\* the check has run on a folder of this visibility that is not deleted
Checked(visibility) ==
  acc.pc = "checked" /\ ~acc.folder.deleted /\ acc.folder.visibility = visibility

Allowed == acc.result = "ok"

Forbidden == acc.result = "403"

\* C7: a personal entity that is not deleted is allowed to its owner in read
\* and in write mode and Forbidden to every other principal, whatever teams
\* that principal is an active member of
C7_PersonalOwnerOnly ==
  Checked("personal") =>
    /\ acc.folder.owner_id = acc.userId => Allowed
    /\ acc.folder.owner_id # acc.userId => Forbidden

\* C7 witness: a principal with active team memberships was denied a personal
\* folder of another user
C7_Witness ==
  /\ Checked("personal") /\ Forbidden
  /\ acc.folder.owner_id \in Users /\ acc.folder.owner_id # acc.userId
  /\ acc.teamIds = Teams

\* C8 as stated: read is allowed exactly to the principals whose active team
\* ids contain the entity's team id, Forbidden otherwise; write is allowed only
\* to such a principal who is also the owner
C8_TeamAsStated ==
  Checked("team") =>
    /\ acc.mode = "read" =>
         IF acc.folder.team_id \in acc.teamIds THEN Allowed ELSE Forbidden
    /\ acc.mode = "write" =>
         (Allowed => acc.folder.team_id \in acc.teamIds /\ acc.folder.owner_id = acc.userId)

\* C8 amended: read is allowed exactly to the owner and to the principals whose
\* active team ids contain the entity's team id, Forbidden otherwise; write is
\* allowed exactly to the owner, member of the team or not
C8_TeamOwnerOrMember ==
  Checked("team") =>
    /\ acc.mode = "read" =>
         IF acc.folder.team_id \in acc.teamIds \/ acc.folder.owner_id = acc.userId
         THEN Allowed ELSE Forbidden
    /\ acc.mode = "write" =>
         IF acc.folder.owner_id = acc.userId THEN Allowed ELSE Forbidden

\* C8 witness: the owner of a team folder, not a member of its team, was allowed to write
C8_Witness ==
  /\ Checked("team") /\ Allowed /\ acc.mode = "write"
  /\ acc.folder.owner_id = acc.userId
  /\ acc.folder.team_id \notin acc.teamIds

\* C9: an organisation entity that is not deleted is readable by every
\* principal; write is allowed only to its owner, and an entity without owner
\* is Forbidden to write for every principal
C9_OrganizationWrite ==
  Checked("organization") =>
    /\ acc.mode = "read" => Allowed
    /\ acc.mode = "write" => (Allowed => acc.folder.owner_id = acc.userId)
    /\ (acc.mode = "write" /\ ~Truthy(acc.folder.owner_id)) => Forbidden

-----------------------------------------------------------------------------
(* Specification of the merge: handleChat lines 196-209 on every bounded input *)

\* matches one namespace query returns, and the topK values tried
MaxMatches == 2
MaxTopK == 2

\* scores in tenths: 0.4 and 0.9
MergeMatches == {[chunkId |-> id, score |-> sc] : id \in {"1", "2", "3"}, sc \in {4, 9}}

MatchLists == UNION {[1..n -> MergeMatches] : n \in 0..MaxMatches}

\* the results of a fan-out over two namespaces
MergeInputs ==
  {[pc |-> "call", results |-> <<a, b>>, topK |-> k, out |-> <<>>] :
     a \in MatchLists, b \in MatchLists, k \in 1..MaxTopK}

MergeInit ==
  /\ acc \in MergeInputs
  /\ isV2 = FALSE
  /\ team_members = SeedMembers
  /\ teams = Teams
  /\ folders = SeedFolders
  /\ files = [f \in FileIds |-> NoRow]
  /\ objects = [f \in FileIds |-> NoObject]
  /\ file_permissions = {}
  /\ chunks = {}
  /\ vectors = {}
  /\ nextChunk = 0
  /\ runs = [p \in AllRunIds |-> IdleRun]
  /\ chat = NoChat
  /\ treqs = [r \in ReqIds |-> IdleReq]

\* lines 196-207: merged, sorted and sliced
MergeCall ==
  /\ acc.pc = "call"
  /\ acc' = [acc EXCEPT !.pc = "merged", !.out = TopMatches(acc.results, acc.topK)]
  /\ UNCHANGED <<isV2, team_members, teams, folders, files, objects, file_permissions, chunks,
                 vectors, nextChunk, runs, chat, treqs>>

MergeNext == MergeCall

MergeSpec == MergeInit /\ [][MergeNext]_vars

\* all the matches of the fan-out results
AllMatches(results) == UNION {{results[n][j] : j \in DOMAIN results[n]} : n \in DOMAIN results}

\* the greatest score among the matches of a chunk id
MaxScore(results, id) ==
  LET scores == {m.score : m \in {x \in AllMatches(results) : x.chunkId = id}}
  IN CHOOSE sc \in scores : \A o \in scores : o <= sc

\* C13: the merged result holds each chunk id at most once, with the greatest
\* score among all matches of that chunk id, in descending order of score, and
\* it is the topK highest-scoring chunks (all of them when there are fewer)
C13_MergedTopK ==
  acc.pc = "merged" =>
    LET out == acc.out
        ids == {m.chunkId : m \in AllMatches(acc.results)}
        outIds == {out[j].chunkId : j \in DOMAIN out}
    IN /\ \A j, k \in DOMAIN out : j # k => out[j].chunkId # out[k].chunkId
       /\ outIds \subseteq ids
       /\ \A j \in DOMAIN out : out[j].score = MaxScore(acc.results, out[j].chunkId)
       /\ \A j, k \in DOMAIN out : j < k => out[j].score >= out[k].score
       /\ Len(out) = IF Cardinality(ids) < acc.topK THEN Cardinality(ids) ELSE acc.topK
       /\ \A id \in ids \ outIds : \A j \in DOMAIN out : MaxScore(acc.results, id) <= out[j].score

\* C13 witness: chunk "1" was matched with 0.4 in one namespace and with 0.9 in
\* the other, the merge kept 0.9, and a lower-scoring chunk was cut by topK
C13_Witness ==
  /\ acc.pc = "merged"
  /\ acc.results = << <<[chunkId |-> "1", score |-> 4], [chunkId |-> "2", score |-> 4]>>,
                      <<[chunkId |-> "1", score |-> 9]>> >>
  /\ acc.topK = 1
  /\ acc.out = <<[chunkId |-> "1", score |-> 9]>>

-----------------------------------------------------------------------------
(* Team membership: lib/org.ts, requests that interleave at their awaits *)

\* another team in which the user has a membership of one of the statuses
HasOtherTeam(members, u, t, statuses) ==
  \E o \in Teams : o # t /\ members[<<o, u>>] \in statuses

SetReq(r, pc, t, u) == [treqs EXCEPT ![r] = [pc |-> pc, team |-> t, user |-> u]]

TeamUnchanged ==
  UNCHANGED <<isV2, folders, files, objects, file_permissions, chunks, vectors, nextChunk,
              runs, chat, acc>>

\* handleCreateTeam (ensureOrgManager) and createTeam, first statement:
\* SELECT ... WHERE user_id = creator AND status = 'active'; a hit throws 400
CreateTeamCheck(r, u) ==
  /\ treqs[r].pc = "idle"
  /\ OrgRole(u) \in {"admin", "owner"}
  /\ ~HasOtherTeam(team_members, u, NULL, {"active"})
  /\ treqs' = SetReq(r, "create", NULL, u)
  /\ UNCHANGED <<team_members, teams>>
  /\ TeamUnchanged

\* createTeam, the two INSERTs: the team with a fresh id, the creator as its active owner
CreateTeamWrite(r) ==
  /\ treqs[r].pc = "create"
  /\ \E t \in Teams \ teams :
       /\ teams' = teams \cup {t}
       /\ team_members' = [team_members EXCEPT ![<<t, treqs[r].user>>] = "active"]
  /\ treqs' = [treqs EXCEPT ![r] = IdleReq]
  /\ TeamUnchanged

\* inviteTeamMember, first statement: a pending or active membership of the
\* user in another team throws 400
InviteCheck(r, t, u) ==
  /\ treqs[r].pc = "idle"
  /\ t \in teams
  /\ ~HasOtherTeam(team_members, u, t, {"pending", "active"})
  /\ treqs' = SetReq(r, "invite", t, u)
  /\ UNCHANGED <<team_members, teams>>
  /\ TeamUnchanged

\* inviteTeamMember, second statement: INSERT pending, ON CONFLICT keep active else pending
InviteWrite(r) ==
  /\ treqs[r].pc = "invite"
  /\ LET m == <<treqs[r].team, treqs[r].user>>
     IN team_members' = [team_members EXCEPT ![m] = IF @ = "active" THEN "active" ELSE "pending"]
  /\ treqs' = [treqs EXCEPT ![r] = IdleReq]
  /\ UNCHANGED teams
  /\ TeamUnchanged

\* acceptTeamInvite, first statement: an active membership in another team throws 400
AcceptCheck(r, t, u) ==
  /\ treqs[r].pc = "idle"
  /\ t \in teams
  /\ ~HasOtherTeam(team_members, u, t, {"active"})
  /\ treqs' = SetReq(r, "accept", t, u)
  /\ UNCHANGED <<team_members, teams>>
  /\ TeamUnchanged

\* acceptTeamInvite, second statement: UPDATE ... SET status = 'active' WHERE
\* team_id AND user_id (whatever the row's status); no row: 404
AcceptWrite(r) ==
  /\ treqs[r].pc = "accept"
  /\ LET m == <<treqs[r].team, treqs[r].user>>
     IN team_members' = [team_members EXCEPT ![m] = IF @ = "none" THEN "none" ELSE "active"]
  /\ treqs' = [treqs EXCEPT ![r] = IdleReq]
  /\ UNCHANGED teams
  /\ TeamUnchanged

\* removeTeamMember: one UPDATE ... SET status = 'removed'
RemoveTeamMember(t, u) ==
  /\ t \in teams
  /\ team_members[<<t, u>>] \notin {"none", "removed"}
  /\ team_members' = [team_members EXCEPT ![<<t, u>>] = "removed"]
  /\ UNCHANGED <<teams, treqs>>
  /\ TeamUnchanged

TeamInit ==
  /\ team_members = [m \in Teams \X Users |-> "none"]
  /\ teams = {}
  /\ treqs = [r \in ReqIds |-> IdleReq]
  /\ isV2 = FALSE
  /\ folders = SeedFolders
  /\ files = [f \in FileIds |-> NoRow]
  /\ objects = [f \in FileIds |-> NoObject]
  /\ file_permissions = {}
  /\ chunks = {}
  /\ vectors = {}
  /\ nextChunk = 0
  /\ runs = [p \in AllRunIds |-> IdleRun]
  /\ chat = NoChat
  /\ acc = NoAccess

TeamNext ==
  \/ \E r \in ReqIds, u \in Users : CreateTeamCheck(r, u)
  \/ \E r \in ReqIds : CreateTeamWrite(r)
  \/ \E r \in ReqIds, t \in Teams, u \in Users : InviteCheck(r, t, u)
  \/ \E r \in ReqIds : InviteWrite(r)
  \/ \E r \in ReqIds, t \in Teams, u \in Users : AcceptCheck(r, t, u)
  \/ \E r \in ReqIds : AcceptWrite(r)
  \/ \E t \in Teams, u \in Users : RemoveTeamMember(t, u)

TeamSpec == TeamInit /\ [][TeamNext]_vars

\* C6: in every reachable state each user has at most one team membership
\* whose status is active
C6_SingleActiveTeam ==
  \A u \in Users : Cardinality({t \in Teams : team_members[<<t, u>>] = "active"}) <= 1

\* C30: acceptTeamInvite makes a membership active only from a pending
\* invitation: when the caller has no membership row for the team, or the
\* membership was removed, the accept leaves team_members as it was
C30_AcceptNeedsPendingInvite ==
  [][\A r \in ReqIds :
       (treqs[r].pc = "accept" /\ treqs'[r].pc # "accept") =>
         (team_members[<<treqs[r].team, treqs[r].user>>] \in {"none", "removed"} =>
            team_members' = team_members)]_vars

-----------------------------------------------------------------------------
(* Specification of one queryNamespace call on a global index: vectorize.ts 155-220 *)

\* the chunk ids and files of the entries the index holds
IndexChunkIds == {"c1", "c2"}

\* the metadata ingestFileById writes for a chunk of a file of u
IndexMetadata ==
  {VectorMetadata(id, f, v, u, UNDEF, UNDEF) :
     id \in IndexChunkIds, f \in {"f1", "f2"}, v \in Visibilities, u \in Users}

\* the contents of a global index: at most one entry per chunk id
IndexContents ==
  {index \in SUBSET {[ns |-> GlobalNs, id |-> md.chunkId, values |-> 1, metadata |-> md] :
                       md \in IndexMetadata} :
     \A e1 \in index, e2 \in index : e1.id = e2.id => e1 = e2}

\* the namespaces handleChat queries
QueryNamespaces ==
  {organizationNamespace(o) : o \in Orgs} \cup {personalNamespace(u) : u \in Users}
    \cup {teamNamespace(t) : t \in Teams}

QueryInit ==
  /\ acc = [pc |-> "call"]
  /\ isV2 = TRUE
  /\ vectors \in IndexContents
  /\ team_members = SeedMembers
  /\ teams = Teams
  /\ folders = SeedFolders
  /\ files = [f \in FileIds |-> NoRow]
  /\ objects = [f \in FileIds |-> NoObject]
  /\ file_permissions = {}
  /\ chunks = {}
  /\ nextChunk = 0
  /\ runs = [p \in AllRunIds |-> IdleRun]
  /\ chat = NoChat
  /\ treqs = [r \in ReqIds |-> IdleReq]

\* one call queryNamespace(env, {namespace, vector, topK}): the queries it
\* issues, the raw matches it keeps and the matches it returns
QueryCall(ns, query) ==
  /\ acc.pc = "call"
  /\ acc' = [pc |-> "returned", namespace |-> ns, vector |-> query,
             calls |-> QueryCalls(vectors, isV2, ns, query, TopK),
             raw |-> QueryRaw(vectors, isV2, ns, query, TopK),
             matches |-> queryNamespace(vectors, isV2, ns, query, TopK)]
  /\ UNCHANGED <<isV2, team_members, teams, folders, files, objects, file_permissions, chunks,
                 vectors, nextChunk, runs, chat, treqs>>

QueryNext == \E ns \in QueryNamespaces, q \in Questions : QueryCall(ns, q)

QuerySpec == QueryInit /\ [][QueryNext]_vars

\* the answer of the index to the filtered query of the call
FilteredMatches == IndexQuery(vectors, GlobalNs, filterFromNamespace(acc.namespace), acc.vector, TopK)

\* C26: on a global index a queryNamespace call issues the filtered query
\* first, issues the unfiltered retry only when the filtered query had no
\* match and then exactly once, and otherwise returns exactly the matches of
\* the filtered query
C26_RetryOnlyWhenEmpty ==
  acc.pc = "returned" =>
    /\ Len(acc.calls) \in {1, 2}
    /\ acc.calls[1] = filterFromNamespace(acc.namespace)
    /\ Len(acc.calls) = 2 => (Len(FilteredMatches) = 0 /\ acc.calls[2] = EmptyFilter)
    /\ Len(FilteredMatches) # 0 => Len(acc.calls) = 1
    /\ Len(acc.calls) = 1 =>
         /\ acc.raw = FilteredMatches
         /\ acc.matches = [j \in 1..Len(FilteredMatches) |->
                             buildMatch(FilteredMatches[j], acc.namespace, acc.vector)]

\* C26 witness: the filtered query of a personal namespace returned one of
\* the two entries of the index, and the call returned that entry alone
C26_Witness ==
  /\ acc.pc = "returned" /\ acc.namespace.scope = "user"
  /\ Cardinality(vectors) = 2
  /\ Len(FilteredMatches) = 1
  /\ Len(acc.calls) = 1 /\ Len(acc.matches) = 1

=============================================================================
